---- MODULE Spec2Model ----
(***************************************************************************)
(* A model of canopen/sdo/server.py: the SDO server (SdoServer), the       *)
(* frame dispatcher on_request and the expedited, segmented and block      *)
(* transfer handlers.  A frame is a tuple of 8 bytes; Python's data[k] is  *)
(* f[k + 1] here.  Every handler is an operator from a server state (a     *)
(* record of the SdoServer fields, the node's data store, the frames sent  *)
(* and the pending exception) to the state it leaves.                      *)
(***************************************************************************)
EXTENDS Integers, Sequences, FiniteSets, TLC

(***************************************************************************)
(* Bounds of the model.                                                    *)
(***************************************************************************)
\* longest download buffer the adversarial client is allowed to build
MaxBuf == 14
\* number of frames an arbitrary client sends
MaxFrames == 3
\* number of transfers the well-behaved client runs one after the other
MaxRounds == 2
\* longest payload of the well-behaved client's small transfers
MaxLen == 15
\* payload length that needs a 32nd block segment (7 * 31 = 217 bytes fit in 31)
BigLen == 218

(***************************************************************************)
(* sdo/constants.py                                                        *)
(***************************************************************************)
REQUEST_SEGMENT_DOWNLOAD == 0
REQUEST_DOWNLOAD == 32
REQUEST_UPLOAD == 64
REQUEST_SEGMENT_UPLOAD == 96
REQUEST_ABORTED == 128
REQUEST_BLOCK_UPLOAD == 160
REQUEST_BLOCK_DOWNLOAD == 192

RESPONSE_SEGMENT_UPLOAD == 0
RESPONSE_SEGMENT_DOWNLOAD == 32
RESPONSE_UPLOAD == 64
RESPONSE_DOWNLOAD == 96
RESPONSE_ABORTED == 128
RESPONSE_BLOCK_DOWNLOAD == 160
RESPONSE_BLOCK_UPLOAD == 192

INITIATE_BLOCK_TRANSFER == 0
END_BLOCK_TRANSFER == 1
BLOCK_TRANSFER_RESPONSE == 2
START_BLOCK_UPLOAD == 3

EXPEDITED == 2
SIZE_SPECIFIED == 1
BLOCK_SIZE_SPECIFIED == 2
CRC_SUPPORTED == 4
NO_MORE_DATA == 1
NO_MORE_BLOCKS == 128
TOGGLE_BIT == 16

\* abort codes (CiA 301), as 32-bit numbers
ABORT_TOGGLE_NOT_ALTERNATED == 84082688
ABORT_INVALID_COMMAND_SPECIFIER == 84148225
ABORT_INVALID_SEQUENCE_NUMBER == 84148227
ABORT_CRC_ERROR == 84148228
ABORT_NOT_IN_OD == 100794368
ABORT_NOT_READABLE == 100728833
ABORT_NOT_WRITABLE == 100728834
ABORT_GENERAL_ERROR == 134217728
ABORT_STORE_APPLICATION == 134217760
ABORT_NO_DATA_AVAILABLE == 134217764

(***************************************************************************)
(* Python values.                                                          *)
(***************************************************************************)
\* None for an integer field (_index, _subindex, _block_crc)
NoneInt == -1
\* None, and a bytearray b, for a buffer field (_buffer, _block_data)
NoneBuf == << >>
Some(b) == << b >>

Min(a, b) == IF a < b THEN a ELSE b
Max(a, b) == IF a > b THEN a ELSE b

RECURSIVE BitAnd(_, _)
BitAnd(a, b) ==
    IF a = 0 \/ b = 0 THEN 0
    ELSE (IF a % 2 = 1 /\ b % 2 = 1 THEN 1 ELSE 0) + 2 * BitAnd(a \div 2, b \div 2)

RECURSIVE BitOr(_, _)
BitOr(a, b) ==
    IF a = 0 THEN b
    ELSE IF b = 0 THEN a
    ELSE (IF a % 2 = 1 \/ b % 2 = 1 THEN 1 ELSE 0) + 2 * BitOr(a \div 2, b \div 2)

RECURSIVE BitXor(_, _)
BitXor(a, b) ==
    IF a = 0 THEN b
    ELSE IF b = 0 THEN a
    ELSE (IF a % 2 # b % 2 THEN 1 ELSE 0) + 2 * BitXor(a \div 2, b \div 2)

\* b[lo:hi] of a Python sequence (0-based, hi exclusive, clipped to the length)
Slice(b, lo, hi) ==
    LET h == Min(hi, Len(b))
    IN  IF lo >= h THEN << >> ELSE SubSeq(b, lo + 1, h)

\* n zero bytes: bytearray(n)
Zeros(n) == [i \in 1..n |-> 0]

\* r[at:at+len(b)] = b on a bytearray r (0-based at)
Put(r, at, b) ==
    [i \in 1..Len(r) |-> IF i > at /\ i <= at + Len(b) THEN b[i - at] ELSE r[i]]

\* struct "<L" / "<H": little-endian bytes of v
PackLE(v, n) == [i \in 1..n |-> (v \div (256 ^ (i - 1))) % 256]
UnpackLE(b) ==
    LET RECURSIVE go(_)
        go(i) == IF i > Len(b) THEN 0 ELSE b[i] + 256 * go(i + 1)
    IN  go(1)

(***************************************************************************)
(* The checksum primitive (SdoBase.crc_cls): CRC-16/XMODEM, polynomial     *)
(* 0x1021, initial value 0.  A running checksum is its 16-bit value.       *)
(***************************************************************************)
CrcNew == 0

\* crc with bit k flipped
FlipBit(crc, k) ==
    IF (crc \div (2 ^ k)) % 2 = 1 THEN crc - 2 ^ k ELSE crc + 2 ^ k

\* crc ^ 0x1021
XorPoly(crc) == FlipBit(FlipBit(FlipBit(crc, 12), 5), 0)

\* k times: shift left by one bit, and xor the polynomial in when a 1 falls out
RECURSIVE CrcShift(_, _)
CrcShift(crc, k) ==
    IF k = 0 THEN crc
    ELSE LET s == (crc * 2) % 65536
             c == IF crc >= 32768 THEN XorPoly(s) ELSE s
         IN  IF c >= 0 THEN CrcShift(c, k - 1) ELSE c

\* the byte is xored into the high byte of the running value
CrcByte(crc, byte) ==
    CrcShift((crc % 256) + 256 * BitXor(crc \div 256, byte), 8)

\* (the test c >= 0 only makes TLC compute c before it goes on)
RECURSIVE CrcFrom(_, _, _)
CrcFrom(crc, data, i) ==
    IF i > Len(data) THEN crc
    ELSE LET c == CrcByte(crc, data[i])
         IN  IF c >= 0 THEN CrcFrom(c, data, i + 1) ELSE c

\* crc.process(data) on the running value crc
CrcProcess(crc, data) == CrcFrom(crc, data, 1)
\* the checksum of a whole byte string
Crc16(data) == CrcProcess(CrcNew, data)


(***************************************************************************)
(* The node's object store behind get_data / set_data (LocalNode): three   *)
(* objects, each with subindex 0 only.  RW_INDEX accepts any byte string,  *)
(* RO_INDEX is readable and not writable, WO_INDEX writable and not        *)
(* readable; every other index is not in the dictionary.                   *)
(***************************************************************************)
RW_INDEX == 8192
RO_INDEX == 4096
WO_INDEX == 8194
MISSING_INDEX == 4660
ABORT_SUBINDEX_NOT_FOUND == 101253137

ObjectIndices == {RW_INDEX, RO_INDEX, WO_INDEX}
Readable(index) == index \in {RW_INDEX, RO_INDEX}
Writable(index) == index \in {RW_INDEX, WO_INDEX}

NoExc == [kind |-> "none", code |-> 0]
Exc(kind, code) == [kind |-> kind, code |-> code]

\* node.get_data(index, subindex, check_readable=True): the bytes, or the error raised
get_data(store, index, subindex) ==
    IF index \notin ObjectIndices
    THEN [exc |-> Exc("KeyError", ABORT_NOT_IN_OD), data |-> << >>]
    ELSE IF subindex # 0
    THEN [exc |-> Exc("SdoAbortedError", ABORT_SUBINDEX_NOT_FOUND), data |-> << >>]
    ELSE IF ~Readable(index)
    THEN [exc |-> Exc("SdoAbortedError", ABORT_NOT_READABLE), data |-> << >>]
    ELSE [exc |-> NoExc, data |-> store[index]]

\* node.set_data(index, subindex, data, check_writable=True): the error raised, if any
set_data_exc(index, subindex) ==
    IF index \notin ObjectIndices THEN Exc("KeyError", ABORT_NOT_IN_OD)
    ELSE IF subindex # 0 THEN Exc("SdoAbortedError", ABORT_SUBINDEX_NOT_FOUND)
    ELSE IF ~Writable(index) THEN Exc("SdoAbortedError", ABORT_NOT_WRITABLE)
    ELSE NoExc

(***************************************************************************)
(* A server state s: the SdoServer fields, the node's data_store, and what *)
(* handling the current frame has done so far: the frames sent, the store  *)
(* writes made, and the exception being raised.                            *)
(***************************************************************************)
Raise(s, e) == [s EXCEPT !.exc = e]

\* set_data on the state: the write, recorded, or the exception
set_data(s, index, subindex, data) ==
    LET e == set_data_exc(index, subindex)
    IN  IF e.kind # "none" THEN Raise(s, e)
        ELSE [s EXCEPT !.data_store = [@ EXCEPT ![index] = data],
                       !.writes = Append(@, <<index, subindex, data>>)]

send_response(s, response) == [s EXCEPT !.sent = Append(@, response)]

\* SDO_STRUCT.pack_into(response, 0, command, index, subindex)
PackHeader(response, command, index, subindex) ==
    Put(response, 0, <<command, index % 256, index \div 256, subindex>>)

FrameIndex(request) == request[2] + 256 * request[3]
FrameSubindex(request) == request[4]

\* abort(code): struct.pack raises when no initiate frame has set the target
abort(s, abort_code) ==
    IF s.index = NoneInt \/ s.subindex = NoneInt
    THEN Raise(s, Exc("struct.error", 0))
    ELSE send_response(s, PackHeader(Zeros(4), RESPONSE_ABORTED, s.index, s.subindex)
                          \o PackLE(abort_code, 4))

\* init_upload that puts the size, not 4 - size, in the unused field
init_upload_size_as_unused(s, request) ==
    LET index == FrameIndex(request)
        subindex == FrameSubindex(request)
        s1 == [s EXCEPT !.index = index, !.subindex = subindex, !.block_mode = FALSE]
        got == get_data(s1.data_store, index, subindex)
        data == got.data
        size == Len(data)
        res_command == BitOr(RESPONSE_UPLOAD, SIZE_SPECIFIED)
    IN  IF got.exc.kind # "none" THEN Raise(s1, got.exc)
        ELSE IF size = 0 THEN abort(s1, ABORT_NO_DATA_AVAILABLE)
        ELSE IF size <= 4
        THEN send_response(s1,
                 PackHeader(Put(Zeros(8), 4, data),
                            BitOr(BitOr(res_command, EXPEDITED), (size % 4) * 4),
                            index, subindex))
        ELSE send_response([s1 EXCEPT !.buffer = Some(data), !.toggle = 0,
                                      !.opened = "SegmentedUpload"],
                 PackHeader(Put(Zeros(8), 4, PackLE(size, 4)), res_command, index, subindex))

init_upload(s, request) ==
    LET index == FrameIndex(request)
        subindex == FrameSubindex(request)
        s1 == [s EXCEPT !.index = index, !.subindex = subindex, !.block_mode = FALSE]
        got == get_data(s1.data_store, index, subindex)
        data == got.data
        size == Len(data)
        res_command == BitOr(RESPONSE_UPLOAD, SIZE_SPECIFIED)
    IN  IF got.exc.kind # "none" THEN Raise(s1, got.exc)
        ELSE IF size = 0 THEN abort(s1, ABORT_NO_DATA_AVAILABLE)
        ELSE IF size <= 4
        THEN send_response(s1,
                 PackHeader(Put(Zeros(8), 4, data),
                            BitOr(BitOr(res_command, EXPEDITED), (4 - size) * 4),
                            index, subindex))
        ELSE send_response([s1 EXCEPT !.buffer = Some(data), !.toggle = 0,
                                      !.opened = "SegmentedUpload"],
                 PackHeader(Put(Zeros(8), 4, PackLE(size, 4)), res_command, index, subindex))

\* segmented_upload that leaves the toggle as it is after a segment
segmented_upload_keeps_toggle(s, command) ==
    IF s.buffer = NoneBuf THEN abort(s, ABORT_GENERAL_ERROR)
    ELSE IF BitAnd(command, TOGGLE_BIT) # s.toggle
    THEN Raise(s, Exc("SdoAbortedError", ABORT_TOGGLE_NOT_ALTERNATED))
    ELSE LET buf == s.buffer[1]
             data == Slice(buf, 0, 7)
             size == Len(data)
             rest == Slice(buf, 7, Len(buf))
             res_command ==
                 BitOr(BitOr(BitOr(RESPONSE_SEGMENT_UPLOAD, s.toggle), (7 - size) * 2),
                       IF rest = << >> THEN NO_MORE_DATA ELSE 0)
         IN  send_response([s EXCEPT !.buffer = Some(rest)],
                           Put(Put(Zeros(8), 0, <<res_command>>), 1, data))

segmented_upload(s, command) ==
    IF s.buffer = NoneBuf THEN abort(s, ABORT_GENERAL_ERROR)
    ELSE IF BitAnd(command, TOGGLE_BIT) # s.toggle
    THEN Raise(s, Exc("SdoAbortedError", ABORT_TOGGLE_NOT_ALTERNATED))
    ELSE LET buf == s.buffer[1]
             data == Slice(buf, 0, 7)
             size == Len(data)
             rest == Slice(buf, 7, Len(buf))
             res_command ==
                 BitOr(BitOr(BitOr(RESPONSE_SEGMENT_UPLOAD, s.toggle), (7 - size) * 2),
                       IF rest = << >> THEN NO_MORE_DATA ELSE 0)
         IN  send_response([s EXCEPT !.buffer = Some(rest),
                                     !.toggle = BitXor(s.toggle, TOGGLE_BIT)],
                           Put(Put(Zeros(8), 0, <<res_command>>), 1, data))

\* request_aborted that also ends the transfer in progress
request_aborted_ends_transfer(s, data) ==
    [s EXCEPT !.last_received_error = UnpackLE(Slice(data, 4, 8)),
              !.buffer = NoneBuf, !.block_mode = FALSE]

request_aborted(s, data) ==
    [s EXCEPT !.last_received_error = UnpackLE(Slice(data, 4, 8))]

\* init_download that takes the unused field as given whether or not a size is specified
init_download_unused_without_size(s, request) ==
    LET command == request[1]
        index == FrameIndex(request)
        subindex == FrameSubindex(request)
        s1 == [s EXCEPT !.index = index, !.subindex = subindex, !.block_mode = FALSE]
        size == 4 - ((command \div 4) % 4)
        s2 == IF BitAnd(command, EXPEDITED) # 0
              THEN set_data(s1, index, subindex, Slice(request, 4, 4 + size))
              ELSE [s1 EXCEPT !.buffer = Some(<< >>), !.toggle = 0,
                              !.opened = "SegmentedDownload"]
    IN  IF s2.exc.kind # "none" THEN s2
        ELSE send_response(s2, PackHeader(Zeros(8), RESPONSE_DOWNLOAD, index, subindex))

init_download(s, request) ==
    LET command == request[1]
        index == FrameIndex(request)
        subindex == FrameSubindex(request)
        s1 == [s EXCEPT !.index = index, !.subindex = subindex, !.block_mode = FALSE]
        size == IF BitAnd(command, SIZE_SPECIFIED) # 0
                THEN 4 - ((command \div 4) % 4) ELSE 4
        s2 == IF BitAnd(command, EXPEDITED) # 0
              THEN set_data(s1, index, subindex, Slice(request, 4, 4 + size))
              ELSE [s1 EXCEPT !.buffer = Some(<< >>), !.toggle = 0,
                              !.opened = "SegmentedDownload"]
    IN  IF s2.exc.kind # "none" THEN s2
        ELSE send_response(s2, PackHeader(Zeros(8), RESPONSE_DOWNLOAD, index, subindex))

\* segmented_download that takes all seven bytes of every segment
segmented_download_whole_segment(s, command, request) ==
    IF BitAnd(command, TOGGLE_BIT) # s.toggle
    THEN Raise(s, Exc("SdoAbortedError", ABORT_TOGGLE_NOT_ALTERNATED))
    ELSE IF s.buffer = NoneBuf THEN Raise(s, Exc("AttributeError", 0))
    ELSE LET buf == s.buffer[1] \o Slice(request, 1, 8)
             s1 == [s EXCEPT !.buffer = Some(buf)]
             s2 == IF BitAnd(command, NO_MORE_DATA) # 0
                   THEN set_data(s1, s1.index, s1.subindex, buf)
                   ELSE s1
         IN  IF s2.exc.kind # "none" THEN s2
             ELSE send_response([s2 EXCEPT !.toggle = BitXor(s.toggle, TOGGLE_BIT)],
                      Put(Zeros(8), 0, <<BitOr(RESPONSE_SEGMENT_DOWNLOAD, s.toggle)>>))

\* segmented_download that takes a segment whatever its toggle bit
segmented_download_any_toggle(s, command, request) ==
    IF s.buffer = NoneBuf THEN Raise(s, Exc("AttributeError", 0))
    ELSE LET last_byte == 8 - ((command \div 2) % 8)
             buf == s.buffer[1] \o Slice(request, 1, last_byte)
             s1 == [s EXCEPT !.buffer = Some(buf)]
             s2 == IF BitAnd(command, NO_MORE_DATA) # 0
                   THEN set_data(s1, s1.index, s1.subindex, buf)
                   ELSE s1
         IN  IF s2.exc.kind # "none" THEN s2
             ELSE send_response([s2 EXCEPT !.toggle = BitXor(s.toggle, TOGGLE_BIT)],
                      Put(Zeros(8), 0, <<BitOr(RESPONSE_SEGMENT_DOWNLOAD, s.toggle)>>))

segmented_download(s, command, request) ==
    IF BitAnd(command, TOGGLE_BIT) # s.toggle
    THEN Raise(s, Exc("SdoAbortedError", ABORT_TOGGLE_NOT_ALTERNATED))
    ELSE IF s.buffer = NoneBuf THEN Raise(s, Exc("AttributeError", 0))
    ELSE LET last_byte == 8 - ((command \div 2) % 8)
             buf == s.buffer[1] \o Slice(request, 1, last_byte)
             s1 == [s EXCEPT !.buffer = Some(buf)]
             s2 == IF BitAnd(command, NO_MORE_DATA) # 0
                   THEN set_data(s1, s1.index, s1.subindex, buf)
                   ELSE s1
         IN  IF s2.exc.kind # "none" THEN s2
             ELSE send_response([s2 EXCEPT !.toggle = BitXor(s.toggle, TOGGLE_BIT)],
                      Put(Zeros(8), 0, <<BitOr(RESPONSE_SEGMENT_DOWNLOAD, s.toggle)>>))

(***************************************************************************)
(* Block upload.                                                           *)
(***************************************************************************)
\* "if self._block_data": a bytearray that is neither None nor empty
Truthy(buf) == buf # NoneBuf /\ buf[1] # << >>

\* the clamp without its lower limit
ClampBlockSize_no_floor(blksize) == Min(blksize, 127)

ClampBlockSize(blksize) == Min(Max(blksize, 1), 127)

\* _init_block_upload without the check for an empty value
_init_block_upload_serves_empty(s, command, request) ==
    LET client_crc_support == BitAnd(command, CRC_SUPPORTED) # 0
        client_blksize == request[5]
        s1 == [s EXCEPT !.block_size = ClampBlockSize(client_blksize)]
        got == get_data(s1.data_store, s1.index, s1.subindex)
        data == got.data
        size == Len(data)
        res_command ==
            BitOr(BitOr(BitOr(RESPONSE_BLOCK_UPLOAD, INITIATE_BLOCK_TRANSFER),
                        IF client_crc_support THEN CRC_SUPPORTED ELSE 0),
                  BLOCK_SIZE_SPECIFIED)
    IN  IF got.exc.kind # "none" THEN abort(s1, ABORT_NOT_IN_OD)
        ELSE send_response(
                 [s1 EXCEPT !.block_data = Some(data),
                            !.block_total_size = size,
                            !.block_sequence = 0,
                            !.block_sent_segments = << >>,
                            !.block_mode = TRUE,
                            !.opened = "BlockUpload",
                            !.block_crc_supported = client_crc_support,
                            !.block_crc = IF client_crc_support THEN CrcNew ELSE @],
                 Put(PackHeader(Zeros(8), res_command, s1.index, s1.subindex),
                     4, PackLE(size, 4)))

_init_block_upload(s, command, request) ==
    LET client_crc_support == BitAnd(command, CRC_SUPPORTED) # 0
        client_blksize == request[5]
        s1 == [s EXCEPT !.block_size = ClampBlockSize(client_blksize)]
        got == get_data(s1.data_store, s1.index, s1.subindex)
        data == got.data
        size == Len(data)
        res_command ==
            BitOr(BitOr(BitOr(RESPONSE_BLOCK_UPLOAD, INITIATE_BLOCK_TRANSFER),
                        IF client_crc_support THEN CRC_SUPPORTED ELSE 0),
                  BLOCK_SIZE_SPECIFIED)
    IN  IF got.exc.kind # "none" THEN abort(s1, ABORT_NOT_IN_OD)
        ELSE IF size = 0 THEN abort(s1, ABORT_NO_DATA_AVAILABLE)
        ELSE send_response(
                 [s1 EXCEPT !.block_data = Some(data),
                            !.block_total_size = size,
                            !.block_sequence = 0,
                            !.block_sent_segments = << >>,
                            !.block_mode = TRUE,
                            !.opened = "BlockUpload",
                            !.block_crc_supported = client_crc_support,
                            !.block_crc = IF client_crc_support THEN CrcNew ELSE @],
                 Put(PackHeader(Zeros(8), res_command, s1.index, s1.subindex),
                     4, PackLE(size, 4)))

\* the loop of _send_block_upload_segments running once more than the block size
RECURSIVE SendSegmentsFrom_one_more(_, _)
SendSegmentsFrom_one_more(s, segments_sent) ==
    IF ~(segments_sent <= s.block_size /\ Truthy(s.block_data)) THEN s
    ELSE LET sequence == s.block_sequence + 1
             segment_data == Slice(s.block_data[1], 0, 7)
             rest == Slice(s.block_data[1], 7, Len(s.block_data[1]))
             s1 == [s EXCEPT !.block_sequence = sequence,
                             !.block_data = Some(rest),
                             !.last_segment_size =
                                 IF rest = << >> THEN Len(segment_data) ELSE @]
             res_command == IF rest = << >> THEN BitOr(sequence, NO_MORE_BLOCKS)
                            ELSE sequence
             response == Put(Put(Zeros(8), 0, <<res_command>>), 1, segment_data)
             s2 == [s1 EXCEPT !.block_sent_segments = Append(@, <<sequence, response>>),
                              !.block_crc =
                                  IF s1.block_crc_supported /\ s1.block_crc # NoneInt
                                  THEN CrcProcess(s1.block_crc, segment_data) ELSE @]
         IN  IF res_command > 255 THEN Raise(s1, Exc("ValueError", 0))
             ELSE SendSegmentsFrom_one_more(send_response(s2, response), segments_sent + 1)

\* the while loop of _send_block_upload_segments, segments_sent segments into it
\* SendSegmentsFrom that sends all the data that remains, whatever the block size
RECURSIVE SendSegmentsFrom_whole_value(_, _)
SendSegmentsFrom_whole_value(s, segments_sent) ==
    IF ~Truthy(s.block_data) THEN s
    ELSE LET sequence == s.block_sequence + 1
             segment_data == Slice(s.block_data[1], 0, 7)
             rest == Slice(s.block_data[1], 7, Len(s.block_data[1]))
             s1 == [s EXCEPT !.block_sequence = sequence,
                             !.block_data = Some(rest),
                             !.last_segment_size =
                                 IF rest = << >> THEN Len(segment_data) ELSE @]
             res_command == IF rest = << >> THEN BitOr(sequence, NO_MORE_BLOCKS)
                            ELSE sequence
             response == Put(Put(Zeros(8), 0, <<res_command>>), 1, segment_data)
             s2 == [s1 EXCEPT !.block_sent_segments = Append(@, <<sequence, response>>),
                              !.block_crc =
                                  IF s1.block_crc_supported /\ s1.block_crc # NoneInt
                                  THEN CrcProcess(s1.block_crc, segment_data) ELSE @]
         IN  IF res_command > 255 THEN Raise(s1, Exc("ValueError", 0))
             ELSE SendSegmentsFrom_whole_value(send_response(s2, response), segments_sent + 1)

RECURSIVE SendSegmentsFrom(_, _)
SendSegmentsFrom(s, segments_sent) ==
    IF ~(segments_sent < s.block_size /\ Truthy(s.block_data)) THEN s
    ELSE LET sequence == s.block_sequence + 1
             segment_data == Slice(s.block_data[1], 0, 7)
             rest == Slice(s.block_data[1], 7, Len(s.block_data[1]))
             s1 == [s EXCEPT !.block_sequence = sequence,
                             !.block_data = Some(rest),
                             !.last_segment_size =
                                 IF rest = << >> THEN Len(segment_data) ELSE @]
             res_command == IF rest = << >> THEN BitOr(sequence, NO_MORE_BLOCKS)
                            ELSE sequence
             response == Put(Put(Zeros(8), 0, <<res_command>>), 1, segment_data)
             s2 == [s1 EXCEPT !.block_sent_segments = Append(@, <<sequence, response>>),
                              !.block_crc =
                                  IF s1.block_crc_supported /\ s1.block_crc # NoneInt
                                  THEN CrcProcess(s1.block_crc, segment_data) ELSE @]
         IN  IF res_command > 255 THEN Raise(s1, Exc("ValueError", 0))
             ELSE SendSegmentsFrom(send_response(s2, response), segments_sent + 1)

_send_block_upload_segments(s) == SendSegmentsFrom(s, 0)

_start_block_upload(s, request) == _send_block_upload_segments(s)

_end_block_upload(s) ==
    LET unused_bytes == IF s.last_segment_size > 0 THEN 7 - s.last_segment_size ELSE 0
        res_command == BitOr(BitOr(RESPONSE_BLOCK_UPLOAD, END_BLOCK_TRANSFER),
                             BitAnd(unused_bytes, 7) * 4)
        response == IF s.block_crc_supported /\ s.block_crc # NoneInt
                    THEN Put(Zeros(8), 1, PackLE(s.block_crc, 2))
                    ELSE Zeros(8)
    IN  [send_response(s, Put(response, 0, <<res_command>>))
            EXCEPT !.block_data = NoneBuf, !.block_crc = NoneInt, !.block_mode = FALSE]

\* sorted(key=seq_num): a stable insertion sort of (seq_num, segment_data) pairs
RECURSIVE SortBySeq(_)
SortBySeq(segs) ==
    IF segs = << >> THEN << >>
    ELSE LET sorted == SortBySeq(SubSeq(segs, 1, Len(segs) - 1))
             x == segs[Len(segs)]
             k == Cardinality({i \in 1..Len(sorted) : sorted[i][1] <= x[1]})
         IN  SubSeq(sorted, 1, k) \o <<x>> \o SubSeq(sorted, k + 1, Len(sorted))

RECURSIVE SendAll(_, _)
SendAll(s, segs) ==
    IF segs = << >> THEN s
    ELSE SendAll(send_response(s, segs[1][2]), Tail(segs))

\* the recorded segments from the acked one on
SegmentsToSend_from_acked(s, ackseq) ==
    SortBySeq(SelectSeq(s.block_sent_segments, LAMBDA seg : seg[1] >= ackseq))

\* the recorded segments the ack asks for again, in sending order
SegmentsToSend(s, ackseq) ==
    SortBySeq(SelectSeq(s.block_sent_segments, LAMBDA seg : seg[1] > ackseq))

\* _handle_block_upload_ack with an ack of the whole window taken for a partial one
_handle_block_upload_ack_never_complete(s, request) ==
    LET ackseq == request[2]
        blksize == request[3]
        s1 == [s EXCEPT !.block_size = ClampBlockSize(blksize)]
        s2 == [s1 EXCEPT !.block_sent_segments = << >>, !.block_sequence = 0]
    IN  IF ackseq <= s1.block_sequence THEN SendAll(s1, SegmentsToSend(s1, ackseq))
        ELSE IF Truthy(s2.block_data) THEN _send_block_upload_segments(s2)
        ELSE _end_block_upload(s2)

_handle_block_upload_ack(s, request) ==
    LET ackseq == request[2]
        blksize == request[3]
        s1 == [s EXCEPT !.block_size = ClampBlockSize(blksize)]
        s2 == [s1 EXCEPT !.block_sent_segments = << >>, !.block_sequence = 0]
    IN  IF ackseq < s1.block_sequence THEN SendAll(s1, SegmentsToSend(s1, ackseq))
        ELSE IF Truthy(s2.block_data) THEN _send_block_upload_segments(s2)
        ELSE _end_block_upload(s2)

block_upload(s, data) ==
    LET command == data[1]
        sub_cmd == BitAnd(command, 3)
    IN  IF BitAnd(command, 224) = REQUEST_BLOCK_UPLOAD
        THEN IF sub_cmd = INITIATE_BLOCK_TRANSFER
             THEN _init_block_upload([s EXCEPT !.index = FrameIndex(data),
                                               !.subindex = FrameSubindex(data)],
                                     command, data)
             ELSE IF sub_cmd = START_BLOCK_UPLOAD THEN _start_block_upload(s, data)
             ELSE IF sub_cmd = BLOCK_TRANSFER_RESPONSE THEN _handle_block_upload_ack(s, data)
             ELSE IF sub_cmd = END_BLOCK_TRANSFER THEN _end_block_upload(s)
             ELSE abort(s, ABORT_INVALID_COMMAND_SPECIFIER)
        ELSE abort(s, ABORT_INVALID_COMMAND_SPECIFIER)

(***************************************************************************)
(* Block download.                                                         *)
(***************************************************************************)
_init_block_download(s, command, request) ==
    LET client_crc_support == BitAnd(command, CRC_SUPPORTED) # 0
        s1 == [s EXCEPT !.block_total_size =
                            IF BitAnd(command, BLOCK_SIZE_SPECIFIED) # 0
                            THEN UnpackLE(Slice(request, 4, 8)) ELSE 0,
                        !.block_data = Some(<< >>),
                        !.block_sequence = 0,
                        !.block_size = 127,
                        !.block_mode = TRUE,
                        !.opened = "BlockDownload",
                        !.block_crc_supported = client_crc_support,
                        !.block_crc = IF client_crc_support THEN CrcNew ELSE @]
        res_command == BitOr(BitOr(RESPONSE_BLOCK_DOWNLOAD, INITIATE_BLOCK_TRANSFER),
                             IF client_crc_support THEN CRC_SUPPORTED ELSE 0)
    IN  send_response(s1,
            Put(PackHeader(Zeros(8), res_command, s1.index, s1.subindex),
                4, <<s1.block_size>>))

\* _handle_block_download_segment that acks a full window one segment late
_handle_block_download_segment_late_ack(s, command, request) ==
    LET sequence == BitAnd(command, 127)
        is_last == BitAnd(command, 128) # 0
        segment_data == Slice(request, 1, 8)
        s1 == [s EXCEPT !.block_sequence = sequence,
                        !.block_data = IF @ # NoneBuf THEN Some(@[1] \o segment_data) ELSE @,
                        !.block_crc = IF s.block_crc_supported /\ @ # NoneInt
                                      THEN CrcProcess(@, segment_data) ELSE @]
        res_command == BitOr(RESPONSE_BLOCK_DOWNLOAD, BLOCK_TRANSFER_RESPONSE)
    IN  IF sequence # s.block_sequence + 1 THEN abort(s, ABORT_INVALID_SEQUENCE_NUMBER)
        ELSE IF sequence > s1.block_size \/ is_last
        THEN [send_response(s1, Put(Zeros(8), 0, <<res_command, sequence, s1.block_size>>))
                 EXCEPT !.block_sequence = 0]
        ELSE s1

_handle_block_download_segment(s, command, request) ==
    LET sequence == BitAnd(command, 127)
        is_last == BitAnd(command, 128) # 0
        segment_data == Slice(request, 1, 8)
        s1 == [s EXCEPT !.block_sequence = sequence,
                        !.block_data = IF @ # NoneBuf THEN Some(@[1] \o segment_data) ELSE @,
                        !.block_crc = IF s.block_crc_supported /\ @ # NoneInt
                                      THEN CrcProcess(@, segment_data) ELSE @]
        res_command == BitOr(RESPONSE_BLOCK_DOWNLOAD, BLOCK_TRANSFER_RESPONSE)
    IN  IF sequence # s.block_sequence + 1 THEN abort(s, ABORT_INVALID_SEQUENCE_NUMBER)
        ELSE IF sequence >= s1.block_size \/ is_last
        THEN [send_response(s1, Put(Zeros(8), 0, <<res_command, sequence, s1.block_size>>))
                 EXCEPT !.block_sequence = 0]
        ELSE s1

\* the loop popping n bytes off the end of _block_data, while any is left
PopUnused(buf, n) ==
    IF buf = NoneBuf THEN buf
    ELSE Some(SubSeq(buf[1], 1, Max(Len(buf[1]) - n, 0)))

_end_block_download(s, command, request) ==
    LET n == (command \div 4) % 8
        s1 == [s EXCEPT !.block_data = PopUnused(@, n)]
        s2 == [s1 EXCEPT !.block_crc =
                   IF s1.block_crc_supported /\ @ # NoneInt /\ Truthy(s1.block_data)
                   THEN CrcProcess(CrcNew, s1.block_data[1]) ELSE @]
        received_crc == UnpackLE(Slice(request, 1, 3))
        calculated_crc == s2.block_crc
        s3 == set_data(s2, s2.index, s2.subindex, s2.block_data[1])
    IN  IF s2.block_crc_supported /\ s2.block_crc # NoneInt /\ received_crc # calculated_crc
        THEN abort(s2, ABORT_CRC_ERROR)
        ELSE IF s2.block_data = NoneBuf THEN abort(s2, ABORT_GENERAL_ERROR)
        ELSE IF s3.exc.kind # "none" THEN abort(s2, ABORT_STORE_APPLICATION)
        ELSE [send_response(s3, Put(Zeros(8), 0,
                                    <<BitOr(RESPONSE_BLOCK_DOWNLOAD, END_BLOCK_TRANSFER)>>))
                 EXCEPT !.block_data = NoneBuf, !.block_crc = NoneInt, !.block_mode = FALSE]

block_download(s, data) ==
    LET command == data[1]
    IN  IF BitAnd(command, 224) = REQUEST_BLOCK_DOWNLOAD
        THEN IF BitAnd(command, 1) = 0
             THEN _init_block_download([s EXCEPT !.index = FrameIndex(data),
                                                 !.subindex = FrameSubindex(data)],
                                       command, data)
             ELSE _end_block_download(s, command, data)
        ELSE _handle_block_download_segment(s, command, data)

(***************************************************************************)
(* The frame dispatcher.                                                   *)
(***************************************************************************)
\* the branches of on_request's try block that call block_download: a download
\* segment or an aborted-family command with a sequence number while in block
\* mode, and the block download commands.  (The last elif of the chain, block
\* mode with ccs = 0, is never reached: ccs = 0 is REQUEST_SEGMENT_DOWNLOAD.)
CallsBlockDownload(s, command) ==
    LET ccs == BitAnd(command, 224)
    IN  \/ ccs = REQUEST_SEGMENT_DOWNLOAD /\ s.block_mode
        \/ ccs = REQUEST_BLOCK_DOWNLOAD
        \/ ccs = REQUEST_ABORTED /\ s.block_mode /\ BitAnd(command, 127) > 0

\* the try block of on_request
Dispatch(s, data) ==
    LET command == data[1]
        ccs == BitAnd(command, 224)
    IN  IF ccs = REQUEST_UPLOAD THEN init_upload(s, data)
        ELSE IF ccs = REQUEST_SEGMENT_UPLOAD THEN segmented_upload(s, command)
        ELSE IF ccs = REQUEST_DOWNLOAD THEN init_download(s, data)
        ELSE IF CallsBlockDownload(s, command) THEN block_download(s, data)
        ELSE IF ccs = REQUEST_SEGMENT_DOWNLOAD THEN segmented_download(s, command, data)
        ELSE IF ccs = REQUEST_BLOCK_UPLOAD THEN block_upload(s, data)
        ELSE IF ccs = REQUEST_ABORTED THEN request_aborted(s, data)
        ELSE abort(s, ABORT_INVALID_COMMAND_SPECIFIER)

\* the except clauses of on_request, on the outcome r of the try block
Except(r) ==
    IF r.exc.kind = "none" THEN r
    ELSE abort([r EXCEPT !.exc = NoExc],
               IF r.exc.kind = "SdoAbortedError" THEN r.exc.code
               ELSE IF r.exc.kind = "KeyError" THEN ABORT_NOT_IN_OD
               ELSE ABORT_GENERAL_ERROR)

\* on_request: the dispatch and its except clauses.  The state returned has
\* exc.kind # "none" exactly when on_request raises to its caller.
on_request(s, data) ==
    Except(Dispatch([s EXCEPT !.sent = << >>, !.writes = << >>, !.exc = NoExc], data))

(***************************************************************************)
(* The state: the fields of SdoServer (named as in __init__, without the   *)
(* leading underscore) and the node's data store; opened, the kind of the  *)
(* transfer the server opened last (the initiate handler that last         *)
(* installed transfer state), which the code does not record; the number   *)
(* of frames the arbitrary client has sent; and the well-behaved client's  *)
(* own record of the transfer it is running.                               *)
(***************************************************************************)
VARIABLES buffer, toggle, index, subindex, last_received_error,
          block_sequence, block_size, block_crc, block_crc_supported,
          block_data, block_total_size, block_sent_segments, block_mode,
          last_segment_size,
          data_store, opened, nframes, client

srv == <<buffer, toggle, index, subindex, last_received_error,
         block_sequence, block_size, block_crc, block_crc_supported,
         block_data, block_total_size, block_sent_segments, block_mode,
         last_segment_size, data_store, opened>>
vars == <<srv, nframes, client>>

\* the current state as a record, nothing sent, written or raised yet
Self ==
    [buffer |-> buffer, toggle |-> toggle, index |-> index, subindex |-> subindex,
     last_received_error |-> last_received_error,
     block_sequence |-> block_sequence, block_size |-> block_size,
     block_crc |-> block_crc, block_crc_supported |-> block_crc_supported,
     block_data |-> block_data, block_total_size |-> block_total_size,
     block_sent_segments |-> block_sent_segments, block_mode |-> block_mode,
     last_segment_size |-> last_segment_size,
     data_store |-> data_store, opened |-> opened, sent |-> << >>, writes |-> << >>, exc |-> NoExc]

\* the state the server is in after handling frame f, with the frames it sent
\* (sent), the store writes it made (writes) and the exception it raised (exc)
After(f) == on_request(Self, f)

\* the server's fields become those of r
Becomes(r) ==
    /\ buffer' = r.buffer
    /\ toggle' = r.toggle
    /\ index' = r.index
    /\ subindex' = r.subindex
    /\ last_received_error' = r.last_received_error
    /\ block_sequence' = r.block_sequence
    /\ block_size' = r.block_size
    /\ block_crc' = r.block_crc
    /\ block_crc_supported' = r.block_crc_supported
    /\ block_data' = r.block_data
    /\ block_total_size' = r.block_total_size
    /\ block_sent_segments' = r.block_sent_segments
    /\ block_mode' = r.block_mode
    /\ last_segment_size' = r.last_segment_size
    /\ data_store' = r.data_store
    /\ opened' = r.opened

\* the transport delivers frame f of the arbitrary client: on_request(can_id, f, timestamp)
Receive(f) ==
    /\ nframes < MaxFrames
    /\ nframes' = nframes + 1
    /\ \E r \in {After(f)} : Becomes(r)
    /\ UNCHANGED client

\* a payload of n bytes, no two neighbours equal
Payload(n) == [i \in 1..n |-> (37 * i + 11) % 256]

\* the read-only object's value
RO_VALUE == <<17, 34>>

\* SdoServer.__init__, on a node whose writable object holds `value`
InitServer(value) ==
    /\ buffer = NoneBuf
    /\ toggle = 0
    /\ index = NoneInt
    /\ subindex = NoneInt
    /\ last_received_error = 0
    /\ block_sequence = 0
    /\ block_size = 127
    /\ block_crc = NoneInt
    /\ block_crc_supported = FALSE
    /\ block_data = NoneBuf
    /\ block_total_size = 0
    /\ block_sent_segments = << >>
    /\ block_mode = FALSE
    /\ last_segment_size = 0
    /\ data_store = [i \in ObjectIndices |->
                        IF i = RW_INDEX THEN value
                        ELSE IF i = RO_INDEX THEN RO_VALUE ELSE << >>]
    /\ opened = "none"
    /\ nframes = 0

(***************************************************************************)
(* The frames of an arbitrary client.                                      *)
(***************************************************************************)
\* bytes 1..3 of an initiate frame
Target(i) == <<i % 256, i \div 256, 0>>

\* the seven data bytes a client puts in a segment
SegmentPayload == <<1, 2, 3, 4, 5, 6, 7>>

\* block sizes a client asks for (byte 4 of an initiate, byte 2 of an ack)
ClientBlockSizes == {0, 2, 255}

UploadInitFrames ==
    {<<REQUEST_UPLOAD>> \o Target(i) \o Zeros(4) : i \in {RW_INDEX, RO_INDEX, MISSING_INDEX}}

UploadSegmentFrames == {<<REQUEST_SEGMENT_UPLOAD + t>> \o Zeros(7) : t \in {0, TOGGLE_BIT}}

\* expedited with 3, 1 and (no size given, unused field 0 or 2) 4 bytes; segmented
\* with and without a size
DownloadInitFrames ==
    {<<REQUEST_DOWNLOAD + c>> \o Target(i) \o <<21, 22, 23, 24>> :
        c \in {EXPEDITED + SIZE_SPECIFIED + 4, EXPEDITED + SIZE_SPECIFIED + 12, EXPEDITED,
               EXPEDITED + 8},
        i \in {RW_INDEX, RO_INDEX}}
    \cup {<<REQUEST_DOWNLOAD + c>> \o Target(i) \o PackLE(10, 4) :
        c \in {0, SIZE_SPECIFIED}, i \in {RW_INDEX, RO_INDEX}}

\* download segments (toggle t, n unused bytes, c = no more data); in block mode the
\* same command bytes are the block segments 1, 2, 3, 16, ...
DownloadSegmentFrames ==
    {<<REQUEST_SEGMENT_DOWNLOAD + t + 2 * n + c>> \o SegmentPayload :
        t \in {0, TOGGLE_BIT}, n \in {0, 1}, c \in {0, NO_MORE_DATA}}

\* block segments 1, 2, 3 and 40, without and with the last-segment bit
BlockSegmentFrames ==
    {<<l + q>> \o SegmentPayload : q \in {1, 2, 3, 40}, l \in {0, NO_MORE_BLOCKS}}

AbortFrames ==
    {<<REQUEST_ABORTED>> \o Target(RW_INDEX) \o PackLE(ABORT_INVALID_SEQUENCE_NUMBER, 4)}

BlockUploadInitFrames ==
    {<<REQUEST_BLOCK_UPLOAD + INITIATE_BLOCK_TRANSFER + c>> \o Target(i) \o <<b, 0, 0, 0>> :
        c \in {0, CRC_SUPPORTED}, i \in {RW_INDEX, MISSING_INDEX}, b \in ClientBlockSizes}

BlockUploadAckFrames ==
    {<<REQUEST_BLOCK_UPLOAD + BLOCK_TRANSFER_RESPONSE, a, b>> \o Zeros(5) :
        a \in 0..2, b \in ClientBlockSizes}

BlockUploadStartFrames == {<<REQUEST_BLOCK_UPLOAD + START_BLOCK_UPLOAD>> \o Zeros(7)}

BlockUploadFrames ==
    BlockUploadInitFrames \cup BlockUploadStartFrames \cup BlockUploadAckFrames
    \cup {<<REQUEST_BLOCK_UPLOAD + END_BLOCK_TRANSFER>> \o Zeros(7)}

\* the checksums a client may put in an end frame that drops n bytes: that of the
\* data kept, the server's running value, or a wrong one
EndCrcs(n) ==
    IF block_data = NoneBuf THEN {0}
    ELSE {Crc16(PopUnused(block_data, n)[1]), 4660}
         \cup (IF block_crc # NoneInt THEN {block_crc} ELSE {})

BlockDownloadInitFrames ==
    {<<REQUEST_BLOCK_DOWNLOAD + INITIATE_BLOCK_TRANSFER + c>> \o Target(i) \o Zeros(4) :
        c \in {0, CRC_SUPPORTED + BLOCK_SIZE_SPECIFIED}, i \in {RW_INDEX, RO_INDEX}}

\* end frames dropping 0, 3 or 7 bytes of the last segment
BlockDownloadEndFrames ==
    UNION {{<<REQUEST_BLOCK_DOWNLOAD + END_BLOCK_TRANSFER + 4 * n>> \o PackLE(k, 2) \o Zeros(5) :
                k \in EndCrcs(n)} : n \in {0, 3, 7}}

BlockDownloadFrames == BlockDownloadInitFrames \cup BlockDownloadEndFrames

UnknownFrames == {<<224>> \o Zeros(7)}

\* a frame that would make a download buffer longer than the model keeps
TooLong(f) ==
    /\ BitAnd(f[1], 224) \in {REQUEST_SEGMENT_DOWNLOAD, REQUEST_ABORTED}
    /\ \/ buffer # NoneBuf /\ Len(buffer[1]) + 7 > MaxBuf
       \/ block_data # NoneBuf /\ Len(block_data[1]) + 7 > MaxBuf

(***************************************************************************)
(* One action per command family of on_request.                            *)
(***************************************************************************)
UploadInit == \E f \in UploadInitFrames : ~TooLong(f) /\ Receive(f)
UploadSegment == \E f \in UploadSegmentFrames : ~TooLong(f) /\ Receive(f)
DownloadInit == \E f \in DownloadInitFrames : ~TooLong(f) /\ Receive(f)
DownloadSegment == \E f \in DownloadSegmentFrames : ~TooLong(f) /\ Receive(f)
BlockSegment == \E f \in BlockSegmentFrames : ~TooLong(f) /\ Receive(f)
BlockUpload == \E f \in BlockUploadFrames : ~TooLong(f) /\ Receive(f)
BlockDownload == \E f \in BlockDownloadFrames : ~TooLong(f) /\ Receive(f)
AbortNotification == \E f \in AbortFrames : ~TooLong(f) /\ Receive(f)
UnknownCommand == \E f \in UnknownFrames : ~TooLong(f) /\ Receive(f)

\* the lengths of the value the writable object holds at start
InitLens == {0, 9}

\* the well-behaved client before its first transfer.  phase: where it is in the
\* transfer; kind: the transfer; payload: the bytes it downloads, or the value the
\* store holds when it starts an upload; pos: how many of them it has sent; seq:
\* its toggle bit or its sequence number in the window; resp: the server's
\* segment answers so far; endf: the server's end frame; wrote: the store writes
\* made since the initiate; downloaded: what the block download before stored
ClientIdle ==
    [phase |-> "idle", kind |-> "none", payload |-> << >>, pos |-> 0, seq |-> 0,
     blksize |-> 0, crc |-> FALSE, resp |-> << >>, endf |-> << >>, wrote |-> << >>,
     downloaded |-> NoneBuf, round |-> 0]

Init == \E n \in InitLens : InitServer(Payload(n)) /\ client = ClientIdle

Next ==
    \/ UploadInit
    \/ UploadSegment
    \/ DownloadInit
    \/ DownloadSegment
    \/ BlockSegment
    \/ BlockUpload
    \/ BlockDownload
    \/ AbortNotification
    \/ UnknownCommand

Spec == Init /\ [][Next]_vars

(***************************************************************************)
(* The well-behaved client: it runs whole transfers, one after the other,  *)
(* each frame built from the answers it got, as the tests' remote node     *)
(* does (test_segmented_upload, test_block_upload, test_block_download).   *)
(***************************************************************************)
\* the writable object starts with 0..MaxLen bytes
InitClient == \E n \in 0..MaxLen : InitServer(Payload(n)) /\ client = ClientIdle

CanStart ==
    /\ client.phase \in {"idle", "done", "refused", "failed"}
    /\ client.round < MaxRounds

\* the client's record at the start of a transfer
Begin(kind, payload) ==
    [ClientIdle EXCEPT !.kind = kind, !.payload = payload, !.round = client.round + 1,
                       !.downloaded = IF client.phase = "done" /\ client.kind = "blockdownload"
                                      THEN Some(client.payload) ELSE NoneBuf]

\* a segment's seven bytes: the data and the filler after it
Padded(chunk) == chunk \o [k \in 1..(7 - Len(chunk)) |-> 170]

IsAbortFrame(sent) == Len(sent) = 1 /\ sent[1][1] = RESPONSE_ABORTED

\* the server has handled the client's frame with outcome r
Delivered(r) == Becomes(r) /\ UNCHANGED nframes

ClientUploadInit ==
    /\ CanStart
    /\ LET Upd(r) ==
               [Begin("upload", data_store[RW_INDEX]) EXCEPT
                   !.endf = r.sent,
                   !.phase = IF IsAbortFrame(r.sent) THEN "refused"
                             ELSE IF Len(r.sent) # 1 \/ BitAnd(r.sent[1][1], 224) # RESPONSE_UPLOAD
                             THEN "failed"
                             ELSE IF BitAnd(r.sent[1][1], EXPEDITED) # 0 THEN "done"
                             ELSE "segments"]
       IN  \E r \in {After(<<REQUEST_UPLOAD>> \o Target(RW_INDEX) \o Zeros(4))} :
           Delivered(r) /\ client' = Upd(r)

ClientUploadSegment ==
    /\ client.kind = "upload"
    /\ client.phase = "segments"
    /\ Len(client.resp) <= Len(client.payload)
    /\ LET Upd(r) ==
               IF Len(r.sent) = 1 /\ BitAnd(r.sent[1][1], 224) = RESPONSE_SEGMENT_UPLOAD
               THEN [client EXCEPT !.resp = Append(@, r.sent[1]),
                                   !.seq = TOGGLE_BIT - @,
                                   !.phase = IF BitAnd(r.sent[1][1], NO_MORE_DATA) # 0
                                             THEN "done" ELSE @]
               ELSE [client EXCEPT !.resp = @ \o r.sent, !.phase = "failed"]
       IN  \E r \in {After(<<REQUEST_SEGMENT_UPLOAD + client.seq>> \o Zeros(7))} :
               Delivered(r) /\ client' = Upd(r)

\* a non-expedited download of 0..MaxLen bytes, its size announced
ClientDownloadInit ==
    /\ CanStart
    /\ \E n \in 0..MaxLen :
        LET Upd(r) ==
                [Begin("download", Payload(n)) EXCEPT
                    !.wrote = r.writes,
                    !.phase = IF Len(r.sent) = 1 /\ r.sent[1][1] = RESPONSE_DOWNLOAD
                              THEN "segments" ELSE "failed"]
        IN  \E r \in {After(<<REQUEST_DOWNLOAD + SIZE_SPECIFIED>> \o Target(RW_INDEX) \o PackLE(n, 4))} :
                Delivered(r) /\ client' = Upd(r)

\* the next 7 bytes, or only 3 of them, with the last segment flagged
ClientDownloadSegment ==
    /\ client.kind = "download"
    /\ client.phase = "segments"
    /\ \E k \in {3, 7} :
        LET left == Len(client.payload) - client.pos
            size == Min(k, left)
            last == size = left
            chunk == SubSeq(client.payload, client.pos + 1, client.pos + size)
            command == REQUEST_SEGMENT_DOWNLOAD + client.seq + 2 * (7 - size)
                       + (IF last THEN NO_MORE_DATA ELSE 0)
            Upd(r) ==
                [client EXCEPT
                    !.pos = @ + size,
                    !.seq = TOGGLE_BIT - @,
                    !.resp = @ \o r.sent,
                    !.wrote = @ \o r.writes,
                    !.phase = IF Len(r.sent) = 1
                                 /\ r.sent[1][1] = RESPONSE_SEGMENT_DOWNLOAD + client.seq
                              THEN (IF last THEN "done" ELSE "segments")
                              ELSE "failed"]
        IN  /\ k = 7 \/ left > 3
            /\ \E r \in {After(<<command>> \o Padded(chunk))} :
                   Delivered(r) /\ client' = Upd(r)

\* the block sizes the well-behaved client asks for
ClientWindowSizes == {1, 2, 127}

ClientBlockUploadInit ==
    /\ CanStart
    /\ \E b \in ClientWindowSizes, c \in BOOLEAN :
        LET Upd(r) ==
                [Begin("blockupload", data_store[RW_INDEX]) EXCEPT
                    !.blksize = b,
                    !.crc = c,
                    !.phase = IF IsAbortFrame(r.sent) THEN "refused"
                              ELSE IF Len(r.sent) = 1
                                      /\ BitAnd(r.sent[1][1], 224 + 1) = RESPONSE_BLOCK_UPLOAD
                              THEN "start" ELSE "failed"]
        IN  \E r \in {After(<<REQUEST_BLOCK_UPLOAD + INITIATE_BLOCK_TRANSFER
                       + (IF c THEN CRC_SUPPORTED ELSE 0)>>
                     \o Target(RW_INDEX) \o <<b, 0, 0, 0>>)} :
                Delivered(r) /\ client' = Upd(r)

\* resp holds the windows received, each the sequence of its segment frames
ClientBlockUploadStart ==
    /\ client.kind = "blockupload"
    /\ client.phase = "start"
    /\ LET Upd(r) == [client EXCEPT !.resp = <<r.sent>>,
                                    !.phase = IF r.sent = << >> THEN "failed" ELSE "ack"]
       IN  \E r \in {After(<<REQUEST_BLOCK_UPLOAD + START_BLOCK_UPLOAD>> \o Zeros(7))} :
               Delivered(r) /\ client' = Upd(r)

\* the client acknowledges the whole window; after the window that held the last
\* segment the answer is the end frame
ClientBlockUploadAck ==
    /\ client.kind = "blockupload"
    /\ client.phase = "ack"
    /\ Len(client.resp) <= Len(client.payload)
    /\ LET window == client.resp[Len(client.resp)]
           final == window[Len(window)]
           Upd(r) ==
               IF BitAnd(final[1], NO_MORE_BLOCKS) # 0
               THEN [client EXCEPT
                        !.endf = r.sent,
                        !.phase = IF Len(r.sent) = 1
                                     /\ BitAnd(r.sent[1][1], 224 + 3)
                                            = RESPONSE_BLOCK_UPLOAD + END_BLOCK_TRANSFER
                                  THEN "end" ELSE "failed"]
               ELSE [client EXCEPT !.resp = Append(@, r.sent),
                                   !.phase = IF r.sent = << >> THEN "failed" ELSE "ack"]
       IN  \E r \in {After(<<REQUEST_BLOCK_UPLOAD + BLOCK_TRANSFER_RESPONSE,
                      BitAnd(final[1], 127), client.blksize>> \o Zeros(5))} :
               Delivered(r) /\ client' = Upd(r)

\* the client confirms the end frame
ClientBlockUploadEnd ==
    /\ client.kind = "blockupload"
    /\ client.phase = "end"
    /\ LET Upd(r) == [client EXCEPT !.phase = "done", !.endf = @ \o r.sent]
       IN  \E r \in {After(<<REQUEST_BLOCK_UPLOAD + END_BLOCK_TRANSFER>> \o Zeros(7))} :
               Delivered(r) /\ client' = Upd(r)

\* a block download of 1..MaxLen or BigLen bytes, its size announced
ClientBlockDownloadInit ==
    /\ CanStart
    /\ \E n \in (1..MaxLen) \cup {BigLen}, c \in BOOLEAN :
        LET Upd(r) ==
                [Begin("blockdownload", Payload(n)) EXCEPT
                    !.crc = c,
                    !.wrote = r.writes,
                    !.blksize = IF Len(r.sent) = 1 THEN r.sent[1][5] ELSE 0,
                    !.phase = IF Len(r.sent) = 1
                                 /\ BitAnd(r.sent[1][1], 224 + 3)
                                        = RESPONSE_BLOCK_DOWNLOAD + INITIATE_BLOCK_TRANSFER
                              THEN "segments" ELSE "failed"]
        IN  \E r \in {After(<<REQUEST_BLOCK_DOWNLOAD + INITIATE_BLOCK_TRANSFER + BLOCK_SIZE_SPECIFIED
                       + (IF c THEN CRC_SUPPORTED ELSE 0)>>
                     \o Target(RW_INDEX) \o PackLE(n, 4))} :
                Delivered(r) /\ client' = Upd(r)

\* the next segment of the window; the server answers the last one of the window
\* and the last one of the transfer, and no other
ClientBlockDownloadSegment ==
    /\ client.kind = "blockdownload"
    /\ client.phase = "segments"
    /\ LET left == Len(client.payload) - client.pos
           size == Min(7, left)
           last == size = left
           chunk == SubSeq(client.payload, client.pos + 1, client.pos + size)
           sequence == client.seq + 1
           acked == last \/ sequence >= client.blksize
           Upd(r) ==
               LET ok == IF acked
                         THEN /\ Len(r.sent) = 1
                              /\ r.sent[1][1] = RESPONSE_BLOCK_DOWNLOAD + BLOCK_TRANSFER_RESPONSE
                              /\ r.sent[1][2] = sequence
                         ELSE r.sent = << >>
               IN  [client EXCEPT
                       !.pos = @ + size,
                       !.seq = IF acked THEN 0 ELSE sequence,
                       !.blksize = IF acked /\ ok THEN r.sent[1][3] ELSE @,
                       !.resp = @ \o r.sent,
                       !.wrote = @ \o r.writes,
                       !.phase = IF ~ok THEN "failed" ELSE IF last THEN "end" ELSE @]
       IN  \E r \in {After(<<sequence + (IF last THEN NO_MORE_BLOCKS ELSE 0)>> \o Padded(chunk))} :
               Delivered(r) /\ client' = Upd(r)

\* the end frame: the unused bytes of the last segment and the payload's checksum
ClientBlockDownloadEnd ==
    /\ client.kind = "blockdownload"
    /\ client.phase = "end"
    /\ LET n == (7 - (Len(client.payload) % 7)) % 7
           Upd(r) ==
               [client EXCEPT
                   !.endf = r.sent,
                   !.wrote = @ \o r.writes,
                   !.phase = IF Len(r.sent) = 1
                                /\ r.sent[1][1] = RESPONSE_BLOCK_DOWNLOAD + END_BLOCK_TRANSFER
                             THEN "done" ELSE "failed"]
       IN  \E r \in {After(<<REQUEST_BLOCK_DOWNLOAD + END_BLOCK_TRANSFER + 4 * n>>
                    \o PackLE(IF client.crc THEN Crc16(client.payload) ELSE 0, 2)
                    \o Zeros(5))} :
               Delivered(r) /\ client' = Upd(r)

NextClient ==
    \/ ClientUploadInit
    \/ ClientUploadSegment
    \/ ClientDownloadInit
    \/ ClientDownloadSegment
    \/ ClientBlockUploadInit
    \/ ClientBlockUploadStart
    \/ ClientBlockUploadAck
    \/ ClientBlockUploadEnd
    \/ ClientBlockDownloadInit
    \/ ClientBlockDownloadSegment
    \/ ClientBlockDownloadEnd

SpecClient == InitClient /\ [][NextClient]_vars

(***************************************************************************)
(* Properties.  Each is a statement about the server's answer to one frame *)
(* in every state the arbitrary client can drive it to: After(f) is the    *)
(* outcome of on_request on f in the current state.                        *)
(***************************************************************************)
\* the abort frame for target (i, sub) carrying code
AbortFrame(i, sub, code) ==
    <<RESPONSE_ABORTED, i % 256, i \div 256, sub>> \o PackLE(code, 4)

\* the client command specifier of a frame
Ccs(f) == BitAnd(f[1], 224)

\* segment request f carries the toggle bit the open session does not expect
ToggleMismatch(f) ==
    /\ buffer # NoneBuf
    /\ BitAnd(f[1], TOGGLE_BIT) # toggle
    /\ \/ Ccs(f) = REQUEST_SEGMENT_UPLOAD
       \/ Ccs(f) = REQUEST_SEGMENT_DOWNLOAD /\ ~block_mode

\* C3: in a segmented upload or a segmented download, a segment request whose
\* toggle bit differs from the session's toggle is answered with exactly one abort
\* frame coded TOGGLE_NOT_ALTERNATED; the buffer and the toggle are the same
\* after as before and the store is not written.
C3_ToggleMismatchAborts ==
    \A f \in UploadSegmentFrames \cup DownloadSegmentFrames :
        ToggleMismatch(f) =>
            \A r \in {After(f)} :
                /\ r.sent = <<AbortFrame(index, subindex, ABORT_TOGGLE_NOT_ALTERNATED)>>
                /\ r.exc = NoExc
                /\ r.buffer = buffer
                /\ r.toggle = toggle
                /\ r.writes = << >>
                /\ r.data_store = data_store

\* a segmented download that has taken one segment gets the stale toggle again
C3_Witness ==
    /\ opened = "SegmentedDownload"
    /\ buffer # NoneBuf
    /\ toggle = TOGGLE_BIT
    /\ \E f \in DownloadSegmentFrames :
        /\ ToggleMismatch(f)
        /\ Len(buffer[1]) > 0
        /\ After(f).sent = <<AbortFrame(index, subindex, ABORT_TOGGLE_NOT_ALTERNATED)>>
        /\ After(f).buffer = buffer

\* the frame asks for a readable object whose stored value is empty
TargetsEmptyValue(f) ==
    /\ FrameIndex(f) \in ObjectIndices
    /\ FrameSubindex(f) = 0
    /\ Readable(FrameIndex(f))
    /\ data_store[FrameIndex(f)] = << >>

\* C9: an upload-initiate or block-upload-initiate for an entry whose stored value
\* is empty is answered with exactly one abort frame coded NO_DATA_AVAILABLE, with
\* no initiate response, and opens no transfer: no upload buffer is installed and
\* block mode is not entered.
C9_EmptyValueAborts ==
    \A f \in UploadInitFrames \cup BlockUploadInitFrames :
        TargetsEmptyValue(f) =>
            \A r \in {After(f)} :
                /\ r.sent = <<AbortFrame(FrameIndex(f), FrameSubindex(f),
                                         ABORT_NO_DATA_AVAILABLE)>>
                /\ r.exc = NoExc
                /\ r.buffer = buffer
                /\ r.block_data = block_data
                /\ r.block_mode => block_mode
                /\ Ccs(f) = REQUEST_UPLOAD => ~r.block_mode
                /\ r.opened = opened

\* a block-upload initiate reaches the empty object and is aborted
C9_Witness ==
    \E f \in BlockUploadInitFrames :
        /\ TargetsEmptyValue(f)
        /\ After(f).sent = <<AbortFrame(RW_INDEX, 0, ABORT_NO_DATA_AVAILABLE)>>
        /\ ~After(f).block_mode

\* C10: an upload-initiate for an entry holding L bytes, 1 <= L <= 4, is answered
\* with one frame: its command has the upload-response specifier with the
\* expedited and size-specified flags and 4 - L in the 2-bit unused field, bytes
\* 1..3 echo the request's index and subindex, bytes 4..4+L-1 are the value and
\* the bytes after them are zero.
C10_ExpeditedUploadEncoding ==
    \A f \in UploadInitFrames :
        (/\ FrameIndex(f) \in ObjectIndices
         /\ Readable(FrameIndex(f))
         /\ Len(data_store[FrameIndex(f)]) \in 1..4) =>
            \A r \in {After(f)} :
                LET value == data_store[FrameIndex(f)]
                    L == Len(value)
                IN  /\ Len(r.sent) = 1
                    /\ r.exc = NoExc
                    /\ Len(r.sent[1]) = 8
                    /\ Ccs(r.sent[1]) = RESPONSE_UPLOAD
                    /\ BitAnd(r.sent[1][1], EXPEDITED) = EXPEDITED
                    /\ BitAnd(r.sent[1][1], SIZE_SPECIFIED) = SIZE_SPECIFIED
                    /\ BitAnd(r.sent[1][1], 16) = 0
                    /\ (r.sent[1][1] \div 4) % 4 = 4 - L
                    /\ Slice(r.sent[1], 1, 4) = Slice(f, 1, 4)
                    /\ Slice(r.sent[1], 4, 4 + L) = value
                    /\ Slice(r.sent[1], 4 + L, 8) = Zeros(4 - L)

\* the writable object holds three bytes and is uploaded
C10_Witness ==
    \E f \in UploadInitFrames :
        /\ FrameIndex(f) = RW_INDEX
        /\ Len(data_store[RW_INDEX]) = 3
        /\ After(f).sent = <<<<RESPONSE_UPLOAD + EXPEDITED + SIZE_SPECIFIED + 4>>
                              \o Target(RW_INDEX) \o data_store[RW_INDEX] \o <<0>>>>

\* the sequence number a block segment frame carries
SeqNo(fr) == BitAnd(fr[1], 127)

\* how many times x occurs in the sequence q
Count(q, x) == Cardinality({k \in DOMAIN q : q[k] = x})

\* the frames of the recorded segments numbered above ackseq, in recorded order
RecordedAbove(ackseq) ==
    LET segs == SelectSeq(block_sent_segments, LAMBDA seg : seg[1] > ackseq)
    IN  [k \in DOMAIN segs |-> segs[k][2]]

\* C5: a block-upload ack whose sequence number is lower than the last sequence
\* sent in the window makes the server send again exactly the recorded segments
\* numbered above the acked one, in ascending order and nothing else, and leaves
\* the remaining data, the sequence counter, the recorded list and the running
\* checksum as they were; what is recorded for a segment is the frame and the
\* number it was first sent with.
C5_RetransmitsRecordedSegments ==
    /\ \A f \in BlockUploadAckFrames :
        f[2] < block_sequence =>
            \A r \in {After(f)} :
                /\ r.exc = NoExc
                /\ Len(r.sent) = Len(RecordedAbove(f[2]))
                /\ \A k \in DOMAIN r.sent :
                       Count(r.sent, r.sent[k]) = Count(RecordedAbove(f[2]), r.sent[k])
                /\ \A k \in 1..(Len(r.sent) - 1) : SeqNo(r.sent[k]) <= SeqNo(r.sent[k + 1])
                /\ r.block_data = block_data
                /\ r.block_sequence = block_sequence
                /\ r.block_sent_segments = block_sent_segments
                /\ r.block_crc = block_crc
    /\ \A f \in BlockUploadStartFrames \cup BlockUploadAckFrames :
        (Truthy(block_data) /\ (f \in BlockUploadAckFrames => f[2] >= block_sequence)) =>
            \A r \in {After(f)} :
                /\ r.exc = NoExc
                /\ r.block_sent_segments =
                       (IF f \in BlockUploadStartFrames THEN block_sent_segments ELSE << >>)
                       \o [k \in DOMAIN r.sent |-> <<SeqNo(r.sent[k]), r.sent[k]>>]

\* two segments of a block upload are out and the client acks only the first
C5_Witness ==
    /\ opened = "BlockUpload"
    /\ block_mode
    /\ block_sequence = 2
    /\ Len(block_sent_segments) = 2
    /\ \E f \in BlockUploadAckFrames :
        /\ f[2] = 1
        /\ After(f).sent = <<block_sent_segments[2][2]>>
        /\ SeqNo(block_sent_segments[2][2]) = 2

\* a block download is open
BlockDownloadOpen == opened = "BlockDownload" /\ block_mode /\ block_data # NoneBuf

\* C6: in an open block download, a data segment whose sequence number is not the
\* last accepted one plus 1 is answered with exactly one abort frame coded
\* INVALID_SEQUENCE_NUMBER, and the buffer, the sequence counter and the checksum
\* are left as they were.
C6_OutOfSequenceAborts ==
    \A f \in BlockSegmentFrames :
        (BlockDownloadOpen /\ SeqNo(f) # block_sequence + 1) =>
            \A r \in {After(f)} :
                /\ r.sent = <<AbortFrame(index, subindex, ABORT_INVALID_SEQUENCE_NUMBER)>>
                /\ r.block_data = block_data
                /\ r.block_sequence = block_sequence
                /\ r.block_crc = block_crc

\* the checksum an end frame carries, and the number of bytes it drops
EndFrameCrc(f) == UnpackLE(Slice(f, 1, 3))
EndFrameUnused(f) == (f[1] \div 4) % 8

\* C7: in a block download with checksums negotiated, an end frame whose checksum
\* differs from the checksum of the data received is answered with an abort coded
\* CRC_ERROR, gets no end acknowledgement, and the store is not written.
C7_WrongChecksumAborts ==
    \A f \in BlockDownloadEndFrames :
        (/\ BlockDownloadOpen
         /\ block_crc_supported
         /\ EndFrameCrc(f) # Crc16(PopUnused(block_data, EndFrameUnused(f))[1])) =>
            \A r \in {After(f)} :
                /\ r.sent = <<AbortFrame(index, subindex, ABORT_CRC_ERROR)>>
                /\ r.writes = << >>
                /\ r.data_store = data_store

(***************************************************************************)
(* Properties of whole transfers, read off the well-behaved client's       *)
(* record of the transfer.                                                 *)
(***************************************************************************)
\* the number of 7-byte segments n bytes need
Ceil7(n) == (n + 6) \div 7

\* the k-th 7-byte piece of p
Chunk(p, k) == SubSeq(p, 7 * (k - 1) + 1, Min(7 * k, Len(p)))

\* the data bytes of an upload segment response: seven less the unused count
UploadSegmentData(fr) == Slice(fr, 1, 8 - ((fr[1] \div 2) % 8))

RECURSIVE ConcatUploadData(_)
ConcatUploadData(frames) ==
    IF frames = << >> THEN << >>
    ELSE UploadSegmentData(Head(frames)) \o ConcatUploadData(Tail(frames))

\* C1: for a stored value of L > 4 bytes, a client that initiates an upload and
\* asks for segments with alternating toggles from 0 gets exactly ceil(L/7) segment
\* responses; their toggle bits go 0, 1, 0, ...; their data bytes, concatenated in
\* order, are the value; and the last response, and no other, carries the
\* no-more-data flag.
C1_SegmentedUploadRoundTrip ==
    (client.kind = "upload" /\ Len(client.payload) > 4) =>
        /\ client.phase \in {"segments", "done"}
        /\ Len(client.resp) <= Ceil7(Len(client.payload))
        /\ \A k \in DOMAIN client.resp :
            /\ BitAnd(client.resp[k][1], TOGGLE_BIT) = TOGGLE_BIT * ((k - 1) % 2)
            /\ (BitAnd(client.resp[k][1], NO_MORE_DATA) # 0) <=> (k = Ceil7(Len(client.payload)))
        /\ ConcatUploadData(client.resp)
               = SubSeq(client.payload, 1, Len(ConcatUploadData(client.resp)))
        /\ client.phase = "done" =>
            /\ Len(client.resp) = Ceil7(Len(client.payload))
            /\ ConcatUploadData(client.resp) = client.payload

\* fifteen bytes have come back in three segments
C1_Witness ==
    /\ client.kind = "upload"
    /\ client.phase = "done"
    /\ Len(client.payload) = 15
    /\ Len(client.resp) = 3
    /\ ConcatUploadData(client.resp) = client.payload

\* C2: after a non-expedited download-initiate, each segment adds its first
\* 7 - unused bytes; the store is written exactly once, on the segment flagged
\* last, with the concatenation of those bytes, and on no earlier segment.
C2_SegmentedDownloadReassembly ==
    client.kind = "download" =>
        /\ client.phase \in {"segments", "done"}
        /\ client.phase = "segments" => client.wrote = << >>
        /\ client.phase = "done" =>
            /\ client.wrote = <<<<RW_INDEX, 0, client.payload>>>>
            /\ data_store[RW_INDEX] = client.payload

\* ten bytes went down in segments of 3, 7 or fewer bytes and were stored
C2_Witness ==
    /\ client.kind = "download"
    /\ client.phase = "done"
    /\ Len(client.payload) = 10
    /\ Len(client.resp) = 3
    /\ client.wrote = <<<<RW_INDEX, 0, client.payload>>>>

RECURSIVE Flat(_)
Flat(windows) == IF windows = << >> THEN << >> ELSE Head(windows) \o Flat(Tail(windows))

\* C4: in a block upload with checksums of a value of L >= 1 bytes, for a client
\* that starts the transfer and acknowledges every window in full, exactly
\* ceil(L/7) data segments are sent, in order; each window holds at most the block
\* size of segments, numbered from 1; only the final segment carries the
\* no-more-blocks flag; and the end frame's checksum is the checksum of the value.
C4_BlockUploadRoundTrip ==
    (client.kind = "blockupload" /\ client.crc /\ Len(client.payload) >= 1) =>
        LET segs == Flat(client.resp)
            N == Ceil7(Len(client.payload))
        IN  /\ client.phase \in {"start", "ack", "end", "done"}
            /\ Len(segs) <= N
            /\ \A w \in DOMAIN client.resp :
                /\ Len(client.resp[w]) \in 1..client.blksize
                /\ \A k \in DOMAIN client.resp[w] : SeqNo(client.resp[w][k]) = k
            /\ \A k \in DOMAIN segs :
                /\ Slice(segs[k], 1, 1 + Len(Chunk(client.payload, k))) = Chunk(client.payload, k)
                /\ (BitAnd(segs[k][1], NO_MORE_BLOCKS) # 0) <=> (k = N)
            /\ client.phase \in {"end", "done"} =>
                /\ Len(segs) = N
                /\ UnpackLE(Slice(client.endf[1], 1, 3)) = Crc16(client.payload)

\* fifteen bytes have come back in a window of two segments and a window of one
C4_Witness ==
    /\ client.kind = "blockupload"
    /\ client.crc
    /\ client.phase = "done"
    /\ Len(client.payload) = 15
    /\ client.blksize = 2
    /\ Len(client.resp) = 2
    /\ Len(client.resp[1]) = 2

\* the bytes a finished block upload delivered: the segments' data less the
\* unused bytes the end frame counts
BlockUploadReceived ==
    LET all == Flat([k \in DOMAIN Flat(client.resp) |-> Slice(Flat(client.resp)[k], 1, 8)])
    IN  SubSeq(all, 1, Len(all) - ((client.endf[1][1] \div 4) % 8))

\* C8: a block download of a non-empty payload followed by a block upload of the
\* same entry returns exactly the bytes that were downloaded, for payloads of up to
\* a full window of 127 segments and more.
C8_BlockRoundTrip ==
    /\ client.kind = "blockdownload" =>
        /\ client.phase # "failed"
        /\ client.phase = "done" => data_store[RW_INDEX] = client.payload
    /\ (client.kind = "blockupload" /\ client.downloaded # NoneBuf) =>
        /\ client.phase \notin {"failed", "refused"}
        /\ client.phase \in {"end", "done"} => BlockUploadReceived = client.downloaded[1]

(***************************************************************************)
(* Properties of what follows a frame: on_request(After(f), g) is the      *)
(* outcome of frame g in the state frame f leaves.                         *)
(***************************************************************************)
\* f is an initiate the server handles as an expedited transfer: an upload-initiate
\* for a readable value of 1..4 bytes, or a download-initiate with the expedited flag
ExpeditedInitiate(f) ==
    \/ /\ Ccs(f) = REQUEST_UPLOAD
       /\ get_data(data_store, FrameIndex(f), FrameSubindex(f)).exc = NoExc
       /\ Len(data_store[FrameIndex(f)]) \in 1..4
    \/ /\ Ccs(f) = REQUEST_DOWNLOAD
       /\ BitAnd(f[1], EXPEDITED) # 0

\* C11: after an expedited upload-initiate or an expedited download-initiate is
\* handled, no transfer is open: the segment buffer of whatever transfer was open
\* before is discarded, block mode is left, and a following upload-segment-request
\* or download-segment frame is answered with exactly one abort frame.
C11_ExpeditedInitiateSupersedes ==
    \A f \in UploadInitFrames \cup DownloadInitFrames :
        ExpeditedInitiate(f) =>
            \A r \in {After(f)} :
                /\ r.buffer = NoneBuf
                /\ ~r.block_mode
                /\ \A g \in UploadSegmentFrames \cup DownloadSegmentFrames :
                       IsAbortFrame(on_request(r, g).sent)

\* the data bytes of an expedited download-initiate: the first n of bytes 4..7, n =
\* 4 less the unused count when the size-specified flag is set, 4 otherwise
ExpeditedData(f) ==
    Slice(f, 4, 4 + (IF BitAnd(f[1], SIZE_SPECIFIED) # 0 THEN 4 - ((f[1] \div 4) % 4) ELSE 4))

\* C12: a download-initiate with the expedited flag makes exactly one store write,
\* of the first n bytes of frame bytes 4..7 to the entry the frame names, and when
\* the store takes it the server sends exactly one download-initiate response that
\* echoes index and subindex; when the store refuses, nothing is written and the
\* one frame sent is an abort.
C12_ExpeditedDownload ==
    \A f \in DownloadInitFrames :
        BitAnd(f[1], EXPEDITED) # 0 =>
            \A r \in {After(f)} :
                IF set_data_exc(FrameIndex(f), FrameSubindex(f)) = NoExc
                THEN /\ r.writes = <<<<FrameIndex(f), FrameSubindex(f), ExpeditedData(f)>>>>
                     /\ r.data_store = [data_store EXCEPT ![FrameIndex(f)] = ExpeditedData(f)]
                     /\ r.sent = <<<<RESPONSE_DOWNLOAD>> \o Slice(f, 1, 4) \o Zeros(4)>>
                     /\ r.exc = NoExc
                ELSE /\ r.writes = << >>
                     /\ r.data_store = data_store
                     /\ IsAbortFrame(r.sent)

\* the writable object has taken a 3-byte expedited download and now gets one byte
C12_Witness ==
    /\ data_store[RW_INDEX] = <<21, 22, 23>>
    /\ index = RW_INDEX
    /\ \E f \in DownloadInitFrames :
        /\ f[1] = REQUEST_DOWNLOAD + EXPEDITED + SIZE_SPECIFIED + 12
        /\ After(f).writes = <<<<RW_INDEX, 0, <<21>>>>>>
        /\ After(f).sent = <<<<RESPONSE_DOWNLOAD>> \o Target(RW_INDEX) \o Zeros(4)>>

\* initiate frames that make the server read or write the store, for every object,
\* the missing one included, at subindex 0 and at a subindex that does not exist
StoreAccessFrames ==
    UNION {{<<REQUEST_UPLOAD, i % 256, i \div 256, sub>> \o Zeros(4),
            <<REQUEST_DOWNLOAD + EXPEDITED, i % 256, i \div 256, sub, 21, 22, 23, 24>>,
            <<REQUEST_BLOCK_UPLOAD + INITIATE_BLOCK_TRANSFER, i % 256, i \div 256, sub,
              2, 0, 0, 0>>} :
                i \in ObjectIndices \cup {MISSING_INDEX}, sub \in {0, 1}}

\* the error with which the store rejects the access an initiate frame asks for
StoreError(f) ==
    IF Ccs(f) = REQUEST_DOWNLOAD
    THEN set_data_exc(FrameIndex(f), FrameSubindex(f))
    ELSE get_data(data_store, FrameIndex(f), FrameSubindex(f)).exc

\* the abort code of a store error: its own, or OBJECT_DOES_NOT_EXIST for a failed lookup
StoreCode(e) == IF e.kind = "KeyError" THEN ABORT_NOT_IN_OD ELSE e.code

\* f is the final segment of the open segmented download and carries the expected toggle
FinalDownloadSegment(f) ==
    /\ buffer # NoneBuf
    /\ ~block_mode
    /\ Ccs(f) = REQUEST_SEGMENT_DOWNLOAD
    /\ BitAnd(f[1], TOGGLE_BIT) = toggle
    /\ BitAnd(f[1], NO_MORE_DATA) # 0

\* C13: when the store rejects the read or write of an upload-initiate, an
\* expedited download-initiate, a block-upload-initiate or a final download
\* segment, the server sends exactly one frame, an abort for the target carrying
\* the store error's own code (OBJECT_DOES_NOT_EXIST for a missing object), and
\* writes nothing.
C13_StoreErrorPassedThrough ==
    /\ \A f \in StoreAccessFrames :
           \A e \in {StoreError(f)} :
               e # NoExc =>
                   \A r \in {After(f)} :
                       /\ r.sent = <<AbortFrame(FrameIndex(f), FrameSubindex(f), StoreCode(e))>>
                       /\ r.exc = NoExc
                       /\ r.writes = << >>
    /\ \A f \in DownloadSegmentFrames :
           \A e \in {set_data_exc(index, subindex)} :
               (FinalDownloadSegment(f) /\ e # NoExc) =>
                   \A r \in {After(f)} :
                       /\ r.sent = <<AbortFrame(index, subindex, StoreCode(e))>>
                       /\ r.exc = NoExc
                       /\ r.writes = << >>

\* every frame of the arbitrary client
ClientFrames ==
    UploadInitFrames \cup UploadSegmentFrames \cup DownloadInitFrames
    \cup DownloadSegmentFrames \cup BlockSegmentFrames \cup BlockUploadFrames
    \cup BlockDownloadFrames \cup AbortFrames \cup UnknownFrames

\* every frame of the arbitrary client, and the initiates for every store target
AllFrames == ClientFrames \cup StoreAccessFrames

\* the 32-bit code an abort frame carries
AbortCode(fr) == UnpackLE(Slice(fr, 4, 8))

\* the server must reject f: its command specifier is unknown, it asks for a segment
\* when no buffer is installed, its toggle is wrong, or the store refuses its access
Rejected(f) ==
    \/ Ccs(f) = 224
    \/ Ccs(f) = REQUEST_SEGMENT_UPLOAD /\ buffer = NoneBuf
    \/ ToggleMismatch(f)
    \/ f \in StoreAccessFrames /\ StoreError(f) # NoExc

\* C14: in every state reachable from construction and for every inbound frame,
\* on_request returns without raising, a rejected frame is answered with exactly
\* one abort frame, and an unknown command specifier outside block mode is answered
\* with an abort coded INVALID_COMMAND_SPECIFIER.
C14_DispatcherRobust ==
    \A f \in AllFrames :
        \A r \in {After(f)} :
            /\ r.exc = NoExc
            /\ Rejected(f) => IsAbortFrame(r.sent)
            /\ (Ccs(f) = 224 /\ ~block_mode) =>
                   /\ IsAbortFrame(r.sent)
                   /\ AbortCode(r.sent[1]) = ABORT_INVALID_COMMAND_SPECIFIER

\* abort notifications of the peer: command byte 0x80, a target and a 32-bit code
AbortNotificationFrames ==
    AbortFrames
    \cup {<<REQUEST_ABORTED>> \o Target(i) \o PackLE(c, 4) :
            i \in {RO_INDEX, MISSING_INDEX}, c \in {0, ABORT_GENERAL_ERROR, ABORT_CRC_ERROR}}

\* C15: an abort notification of the peer, in whatever state it arrives, sets
\* last_received_error to the 32-bit code in bytes 4..7 of the frame, makes the
\* server send nothing and write nothing, and leaves every other field of the
\* session (target, buffers, toggle, block mode, sequence, block size, recorded
\* segments, checksum) as it was.
C15_AbortNotification ==
    \A f \in AbortNotificationFrames :
        \A r \in {After(f)} :
            /\ r.last_received_error = AbortCode(f)
            /\ r.sent = << >>
            /\ r.writes = << >>
            /\ r.exc = NoExc
            /\ [r EXCEPT !.last_received_error = last_received_error] = Self

\* a block download that has taken its first segment has received an abort
\* notification and gets another
C15_Witness ==
    /\ BlockDownloadOpen
    /\ block_sequence = 1
    /\ Len(block_data[1]) = 7
    /\ last_received_error = ABORT_INVALID_SEQUENCE_NUMBER
    /\ \E f \in AbortNotificationFrames :
        /\ AbortCode(f) = ABORT_CRC_ERROR
        /\ After(f) = [Self EXCEPT !.last_received_error = ABORT_CRC_ERROR]

\* every block segment frame: sequence number 1..127, last-segment bit clear or set
AllBlockSegmentFrames ==
    {<<l + q>> \o SegmentPayload : q \in 1..127, l \in {0, NO_MORE_BLOCKS}}

\* what the block-download segment handler can send for the segment frame f: nothing,
\* the ack of f's sequence number, or the abort for a segment out of sequence
BlockSegmentAnswers(f) ==
    {<< >>,
     <<<<RESPONSE_BLOCK_DOWNLOAD + BLOCK_TRANSFER_RESPONSE, SeqNo(f), block_size>> \o Zeros(5)>>,
     <<AbortFrame(index, subindex, ABORT_INVALID_SEQUENCE_NUMBER)>>}

\* C16: while a block download is open, every frame whose low 7 bits are a sequence
\* number 1..127, with either value of the top bit, is handled as a block-download
\* data segment and as nothing else: the target, the segmented buffer and toggle
\* and block mode stay as they are, the only frames sent are a block ack or the
\* out-of-sequence abort, the segment that is next in sequence has its seven bytes
\* appended to the block buffer, and every other segment gets that abort.
C16_ModeFirstRouting ==
    BlockDownloadOpen =>
        \A f \in AllBlockSegmentFrames :
            \A r \in {After(f)} :
                /\ r.exc = NoExc
                /\ r.sent \in BlockSegmentAnswers(f)
                /\ r.index = index /\ r.subindex = subindex
                /\ r.buffer = buffer /\ r.toggle = toggle
                /\ r.block_mode
                /\ r.writes = << >>
                /\ SeqNo(f) = block_sequence + 1 =>
                       /\ r.block_data = Some(block_data[1] \o Slice(f, 1, 8))
                       /\ r.sent # <<AbortFrame(index, subindex, ABORT_INVALID_SEQUENCE_NUMBER)>>
                /\ SeqNo(f) # block_sequence + 1 =>
                       r.sent = <<AbortFrame(index, subindex, ABORT_INVALID_SEQUENCE_NUMBER)>>

\* f is a data segment the block-download segment handler accepts: block mode is on,
\* the dispatcher routes the command byte to the handler, and the sequence number
\* is the one after the last accepted
AcceptedSegment(f) ==
    /\ block_mode
    /\ Ccs(f) \in {REQUEST_SEGMENT_DOWNLOAD, REQUEST_ABORTED}
    /\ SeqNo(f) = block_sequence + 1

\* the block-download ack of sequence number seq
BlockAck(seq) ==
    <<RESPONSE_BLOCK_DOWNLOAD + BLOCK_TRANSFER_RESPONSE, seq, block_size>> \o Zeros(5)

\* C17: an accepted data segment makes the server send a frame if and only if its
\* sequence number has reached the block size or its last-segment bit is set; the
\* frame is then the one block-download ack carrying that sequence number and the
\* server's block size, and the sequence counter is 0 afterwards; otherwise
\* nothing is sent and the counter is the segment's sequence number.
C17_BlockDownloadAckRule ==
    \A f \in AllBlockSegmentFrames :
        AcceptedSegment(f) =>
            \A r \in {After(f)} :
                /\ r.exc = NoExc
                /\ r.block_size = block_size
                /\ IF SeqNo(f) >= block_size \/ f[1] >= NO_MORE_BLOCKS
                   THEN r.sent = <<BlockAck(SeqNo(f))>> /\ r.block_sequence = 0
                   ELSE r.sent = << >> /\ r.block_sequence = SeqNo(f)

\* an open block download has taken segment 1 without an ack and gets segment 2
\* with the last-segment bit, which is acked
C17_Witness ==
    /\ BlockDownloadOpen
    /\ block_sequence = 1
    /\ Len(block_data[1]) = 7
    /\ \E f \in AllBlockSegmentFrames :
        /\ f[1] = NO_MORE_BLOCKS + 2
        /\ AcceptedSegment(f)
        /\ After(f).sent = <<BlockAck(2)>>
        /\ After(f).block_sequence = 0
        /\ After(f).block_data = Some(block_data[1] \o SegmentPayload)

\* a transfer is open: a segmented buffer is installed or a block download is on
TransferOpen == buffer # NoneBuf \/ BlockDownloadOpen

\* the frames that continue an open transfer
ContinuationFrames ==
    UploadSegmentFrames \cup DownloadSegmentFrames \cup BlockSegmentFrames
    \cup BlockDownloadEndFrames

\* the server has answered with the abort of a protocol error of an open transfer
ProtocolErrorAbort(r) ==
    /\ IsAbortFrame(r.sent)
    /\ AbortCode(r.sent[1]) \in {ABORT_TOGGLE_NOT_ALTERNATED, ABORT_INVALID_SEQUENCE_NUMBER,
                                  ABORT_CRC_ERROR, ABORT_STORE_APPLICATION}

\* C18: after the server has aborted an open transfer for a protocol error (wrong
\* toggle in a segmented transfer; wrong sequence number, wrong checksum or a store
\* failure in a block download), no transfer is open: the segmented buffer and the
\* block buffer are discarded and block mode is off, and every frame that would
\* continue the transfer is answered with exactly one abort frame.
C18_AbortTerminates ==
    TransferOpen =>
        \A f \in ContinuationFrames :
            \A r \in {After(f)} :
                ProtocolErrorAbort(r) =>
                    /\ r.buffer = NoneBuf
                    /\ r.block_data = NoneBuf
                    /\ ~r.block_mode
                    /\ \A g \in ContinuationFrames : IsAbortFrame(on_request(r, g).sent)

\* frame f completes the open segmented transfer with outcome r: an upload-segment-
\* request answered with the segment that has the no-more-data flag, or the final
\* download segment answered with a segment response
Completes(f, r) ==
    /\ buffer # NoneBuf
    /\ Len(r.sent) = 1
    /\ \/ /\ Ccs(f) = REQUEST_SEGMENT_UPLOAD
          /\ Ccs(r.sent[1]) = RESPONSE_SEGMENT_UPLOAD
          /\ BitAnd(r.sent[1][1], NO_MORE_DATA) # 0
       \/ /\ FinalDownloadSegment(f)
          /\ Ccs(r.sent[1]) = RESPONSE_SEGMENT_DOWNLOAD

\* C19: after a segmented upload has sent its final segment, or a segmented
\* download has processed its final segment, the transfer state is destroyed (no
\* buffer is installed) and a further upload-segment-request, with either toggle
\* bit, is answered with exactly one abort frame and not with a segment response.
C19_CompletionReturnsToIdle ==
    \A f \in UploadSegmentFrames \cup DownloadSegmentFrames :
        \A r \in {After(f)} :
            Completes(f, r) =>
                /\ r.buffer = NoneBuf
                /\ \A g \in UploadSegmentFrames : IsAbortFrame(on_request(r, g).sent)

\* the download-initiate frames, segmented and block, for every object of the store
DownloadOpeningFrames ==
    UNION {{<<REQUEST_DOWNLOAD + SIZE_SPECIFIED>> \o Target(i) \o PackLE(7, 4),
            <<REQUEST_BLOCK_DOWNLOAD + INITIATE_BLOCK_TRANSFER>> \o Target(i) \o Zeros(4)} :
                i \in ObjectIndices}

\* frames received while the download is open: expedited and failed initiates for
\* any entry, block-upload initiates, abort notifications
BetweenFrames == StoreAccessFrames \cup AbortNotificationFrames

\* the frames that make a download write its buffer: the final segment of a
\* segmented download, and a block segment followed by the block end frame
ClosingFrames ==
    {<<<<REQUEST_SEGMENT_DOWNLOAD + NO_MORE_DATA>> \o SegmentPayload>>,
     <<<<REQUEST_BLOCK_DOWNLOAD + END_BLOCK_TRANSFER>> \o Zeros(7)>>,
     <<<<1>> \o SegmentPayload, <<REQUEST_BLOCK_DOWNLOAD + END_BLOCK_TRANSFER>> \o Zeros(7)>>}

\* the store writes made while the frames of the sequence fs are handled from state s
RECURSIVE WritesOf(_, _)
WritesOf(s, fs) ==
    IF fs = << >> THEN << >>
    ELSE LET r == on_request(s, Head(fs))
         IN  r.writes \o WritesOf(r, Tail(fs))

\* C20: when a segmented download or a block download writes its buffer to the
\* store, it writes the (index, subindex) named in the download-initiate frame that
\* opened it, whatever frame (an expedited or failed initiate for another entry, a
\* block-upload initiate, an abort notification) was received in between.
C20_TargetIntegrity ==
    \A f \in DownloadOpeningFrames :
        \A g \in BetweenFrames :
            \A s \in {on_request(After(f), g)} :
                \A hs \in ClosingFrames :
                    \A w \in {WritesOf(s, hs)} :
                        \A k \in 1..Len(w) :
                            /\ w[k][1] = FrameIndex(f)
                            /\ w[k][2] = FrameSubindex(f)

(***************************************************************************)
(* Properties of the block transfers and of the abort operation.           *)
(***************************************************************************)
\* a block upload is open: the last transfer installed is a block upload, block
\* mode is on and the upload data is held
BlockUploadOpen == opened = "BlockUpload" /\ block_mode /\ block_data # NoneBuf

\* a segmented upload is open: its buffer is installed and block mode is off
SegmentedUploadOpen == opened = "SegmentedUpload" /\ buffer # NoneBuf /\ ~block_mode

\* C21: a frame of one transfer kind never changes the data of an open transfer of
\* another kind: while a block upload is open, a frame whose top three bits are
\* 000, or a block-download end frame, leaves the remaining upload data as it is
\* and writes nothing to the store; while a segmented upload is open, a
\* download-segment frame leaves the upload buffer as it is and writes nothing.
C21_ModeIsolation ==
    /\ BlockUploadOpen =>
           \A f \in DownloadSegmentFrames \cup BlockSegmentFrames \cup BlockDownloadEndFrames :
               (Ccs(f) = 0 \/ f \in BlockDownloadEndFrames) =>
                   \A r \in {After(f)} :
                       /\ r.block_data = block_data
                       /\ r.writes = << >>
    /\ SegmentedUploadOpen =>
           \A f \in DownloadSegmentFrames :
               \A r \in {After(f)} :
                   /\ r.buffer = buffer
                   /\ r.writes = << >>

(***************************************************************************)
(* The server on a node whose writable object holds a long value, and a    *)
(* client that uploads it in blocks: initiate, start and ack frames only.  *)
(***************************************************************************)
\* the length of the long value: 129 segments
LongLen == 897

\* the number of frames the client of the long upload sends
MaxLongFrames == 5

\* block sizes the client of the long upload asks for
LongBlockSizes == {1, 32}

LongInitFrames ==
    {<<REQUEST_BLOCK_UPLOAD + INITIATE_BLOCK_TRANSFER + c>> \o Target(RW_INDEX) \o <<b, 0, 0, 0>> :
        c \in {0, CRC_SUPPORTED}, b \in LongBlockSizes}

\* acks of everything sent so far and of all but the last segment
LongAckFrames ==
    {<<REQUEST_BLOCK_UPLOAD + BLOCK_TRANSFER_RESPONSE, a, b>> \o Zeros(5) :
        a \in {block_sequence % 256, Max(block_sequence - 1, 0) % 256}, b \in LongBlockSizes}

InitLong == InitServer(Payload(LongLen)) /\ client = ClientIdle

ReceiveLong(f) ==
    /\ nframes < MaxLongFrames
    /\ nframes' = nframes + 1
    /\ \E r \in {After(f)} : Becomes(r)
    /\ UNCHANGED client

LongInit == \E f \in LongInitFrames : ~TooLong(f) /\ ReceiveLong(f)
LongStart == \E f \in BlockUploadStartFrames : ~TooLong(f) /\ ReceiveLong(f)
LongAck == \E f \in LongAckFrames : ~TooLong(f) /\ ReceiveLong(f)

NextLong ==
    \/ LongInit
    \/ LongStart
    \/ LongAck

SpecLong == InitLong /\ [][NextLong]_vars

\* C22: in every reachable state the block sequence counter is within 0..127, no
\* more than 127 segments are retained for retransmission, every retained (that
\* is, every emitted) data segment carries a sequence number within 1..127 in the
\* low 7 bits of its command byte, and a start frame, repeated or not, is handled
\* without an error and emits only such segments.
C22_BlockUploadBounds ==
    /\ block_sequence \in 0..127
    /\ Len(block_sent_segments) <= 127
    /\ \A k \in 1..Len(block_sent_segments) :
           /\ block_sent_segments[k][1] \in 1..127
           /\ SeqNo(block_sent_segments[k][2]) \in 1..127
    /\ \A f \in BlockUploadStartFrames :
           \A r \in {After(f)} :
               /\ r.exc = NoExc
               /\ \A k \in 1..Len(r.sent) : SeqNo(r.sent[k]) \in 1..127

\* block-download end frames announcing every number n of padding bytes, with the
\* checksum of the trimmed data, the server's running value, or a wrong one
AllBlockDownloadEndFrames ==
    UNION {{<<REQUEST_BLOCK_DOWNLOAD + END_BLOCK_TRANSFER + 4 * n>> \o PackLE(k, 2) \o Zeros(5) :
                k \in EndCrcs(n)} : n \in 0..7}

\* the block buffer with the padding the end frame f announces stripped
Trimmed(f) == PopUnused(block_data, EndFrameUnused(f))[1]

\* C23: in a block download with checksums negotiated and a writable target, an end
\* frame announcing n padding bytes, 0 <= n <= 7, is accepted (the buffer less its
\* last n bytes is written to the store and the end acknowledgment is sent) if and
\* only if the checksum it carries is the checksum computed afresh over the
\* trimmed buffer, also when the trimmed buffer is empty; otherwise nothing is
\* written and the answer is the CRC_ERROR abort.
C23_EndChecksumOverTrimmedData ==
    (/\ BlockDownloadOpen
     /\ block_crc_supported
     /\ set_data_exc(index, subindex) = NoExc) =>
        \A f \in AllBlockDownloadEndFrames :
            \A r \in {After(f)} :
                IF EndFrameCrc(f) = Crc16(Trimmed(f))
                THEN /\ r.writes = <<<<index, subindex, Trimmed(f)>>>>
                     /\ r.sent = <<<<RESPONSE_BLOCK_DOWNLOAD + END_BLOCK_TRANSFER>> \o Zeros(7)>>
                ELSE /\ r.writes = << >>
                     /\ r.sent = <<AbortFrame(index, subindex, ABORT_CRC_ERROR)>>

\* the open block upload is that of the value stored at the target: the data held
\* is what remains of it
UploadIntact ==
    /\ index \in ObjectIndices
    /\ block_total_size = Len(data_store[index])
    /\ Len(block_data[1]) <= block_total_size
    /\ block_data[1] = Slice(data_store[index], block_total_size - Len(block_data[1]),
                              block_total_size)

\* the end-of-block-upload frames, for every value of the unused field
IsBlockUploadEndFrame(fr) ==
    fr[1] \in {RESPONSE_BLOCK_UPLOAD + END_BLOCK_TRANSFER + 4 * u : u \in 0..7}

\* the unused-byte count of the final data segment of the open block upload, when
\* that segment has been sent (no data remains), and 0 when it has not: the
\* segments sent before it carry seven bytes
ExpectedUnused ==
    IF block_data = Some(<< >>) THEN 7 - (((block_total_size - 1) % 7) + 1) ELSE 0

\* C24: when the server emits the end-of-block-upload frame, its 3-bit unused field
\* is 7 less the length of the final data segment sent in this transfer, or 0 when
\* this transfer has not sent its final segment (it never shows a segment of an
\* earlier transfer), and afterwards the block fields are cleared: no block data,
\* no checksum, block mode off, sequence counter 0, no segments retained.
C24_BlockUploadEndFrame ==
    (BlockUploadOpen /\ UploadIntact) =>
        \A f \in BlockUploadFrames :
            \A r \in {After(f)} :
                (Len(r.sent) = 1 /\ IsBlockUploadEndFrame(r.sent[1])) =>
                    /\ (r.sent[1][1] \div 4) % 8 = ExpectedUnused
                    /\ r.block_data = NoneBuf
                    /\ r.block_crc = NoneInt
                    /\ ~r.block_mode
                    /\ r.block_sequence = 0
                    /\ r.block_sent_segments = << >>

\* the block upload last opened is over: its end frame has gone out, the block data
\* is dropped and block mode is off
BlockUploadEnded == opened = "BlockUpload" /\ ~block_mode /\ block_data = NoneBuf

\* the client's end confirmation of a block upload
BlockUploadEndConfirmation == <<REQUEST_BLOCK_UPLOAD + END_BLOCK_TRANSFER>> \o Zeros(7)

\* C25: once the end-of-block-upload frame of a block upload has been emitted and
\* no block upload is open, neither the client's end confirmation nor a further
\* block-upload ack makes the server emit another end-of-block-upload frame.
C25_OneEndFrame ==
    BlockUploadEnded =>
        \A f \in {BlockUploadEndConfirmation} \cup BlockUploadAckFrames :
            \A r \in {After(f)} :
                \A k \in 1..Len(r.sent) : ~IsBlockUploadEndFrame(r.sent[k])

\* f is a block-upload start frame or ack
IsStart(f) == Ccs(f) = REQUEST_BLOCK_UPLOAD /\ BitAnd(f[1], 3) = START_BLOCK_UPLOAD
IsAck(f) == Ccs(f) = REQUEST_BLOCK_UPLOAD /\ BitAnd(f[1], 3) = BLOCK_TRANSFER_RESPONSE

\* f makes the server send a window: a start frame, or an ack of everything sent
\* while data remains
SendsWindow(f) == IsStart(f) \/ (IsAck(f) /\ f[2] >= block_sequence /\ Truthy(block_data))

\* f is an ack of less than everything sent
PartialAck(f) == IsAck(f) /\ f[2] < block_sequence

\* the frames of r.sent are a window of at most r.block_size data segments, those
\* the server has just recorded
IsWindow(r) ==
    /\ Len(r.sent) <= r.block_size
    /\ Len(r.sent) <= Len(r.block_sent_segments)
    /\ \A k \in 1..Len(r.sent) :
           r.sent[k] = r.block_sent_segments[Len(r.block_sent_segments) - Len(r.sent) + k][2]

\* C26 as stated: handling one frame emits at most one frame, except that a
\* block-upload frame that makes the server send a window emits at most block
\* size data segments.
C26_AtMostOneFrameOrWindow ==
    \A f \in ClientFrames :
        \A r \in {After(f)} :
            \/ Len(r.sent) <= 1
            \/ SendsWindow(f) /\ IsWindow(r)

\* C26, amended: handling one frame emits at most one frame, except that a
\* block-upload frame that makes the server send a window emits at most block
\* size data segments, and that a partial block-upload ack re-emits segments
\* retained for retransmission, at most as many as are retained.
C26_AtMostOneFrameWindowOrRetransmission ==
    \A f \in ClientFrames :
        \A r \in {After(f)} :
            \/ Len(r.sent) <= 1
            \/ SendsWindow(f) /\ IsWindow(r)
            \/ /\ PartialAck(f)
               /\ Len(r.sent) <= Len(block_sent_segments)
               /\ \A k \in 1..Len(r.sent) :
                      \E j \in 1..Len(block_sent_segments) :
                          r.sent[k] = block_sent_segments[j][2]

\* two segments are retained, an ack of none of them has both sent again, and a
\* start frame sends no more than the block size
C26_Witness ==
    /\ block_mode
    /\ Len(block_sent_segments) = 2
    /\ \E f \in BlockUploadAckFrames :
        /\ PartialAck(f)
        /\ Len(After(f).sent) = 2
    /\ \E f \in BlockUploadStartFrames : IsWindow(After(f))

(***************************************************************************)
(* Progress of a block upload.  The client of SpecProgress starts a block   *)
(* upload and acknowledges the windows, each ack carrying a block size of   *)
(* its choice; before the full ack of a window it may once acknowledge only *)
(* a part of it.  The start and the full ack are taken when they can be.    *)
(***************************************************************************)
\* the client acknowledges only the first a segments of the window; the server
\* sends the others again, and the window is still to be acknowledged; pos
\* counts the partial acks of the transfer
ProgressPartialAck ==
    /\ client.kind = "blockupload"
    /\ client.phase = "ack"
    /\ client.seq = 0
    /\ LET window == client.resp[Len(client.resp)]
       IN  \E a \in 0..(Len(window) - 1), b \in ClientWindowSizes :
               LET Upd(r) ==
                       [client EXCEPT
                           !.seq = 1,
                           !.pos = @ + 1,
                           !.blksize = b,
                           !.phase = IF r.sent = SubSeq(window, a + 1, Len(window))
                                     THEN "ack" ELSE "failed"]
               IN  \E r \in {After(<<REQUEST_BLOCK_UPLOAD + BLOCK_TRANSFER_RESPONSE, a, b>>
                                  \o Zeros(5))} :
                       Delivered(r) /\ client' = Upd(r)

\* the client acknowledges the whole window and asks for a block size; after
\* the window that held the last segment the answer is the end frame
ProgressFullAck ==
    /\ client.kind = "blockupload"
    /\ client.phase = "ack"
    /\ Len(client.resp) <= Len(client.payload)
    /\ LET window == client.resp[Len(client.resp)]
           final == window[Len(window)]
       IN  \E b \in ClientWindowSizes :
               LET Upd(r) ==
                       IF BitAnd(final[1], NO_MORE_BLOCKS) # 0
                       THEN [client EXCEPT
                                !.seq = 0,
                                !.blksize = b,
                                !.endf = r.sent,
                                !.phase = IF Len(r.sent) = 1
                                             /\ BitAnd(r.sent[1][1], 224 + 3)
                                                    = RESPONSE_BLOCK_UPLOAD + END_BLOCK_TRANSFER
                                          THEN "end" ELSE "failed"]
                       ELSE [client EXCEPT
                                !.seq = 0,
                                !.blksize = b,
                                !.resp = Append(@, r.sent),
                                !.phase = IF r.sent = << >> THEN "failed" ELSE "ack"]
               IN  \E r \in {After(<<REQUEST_BLOCK_UPLOAD + BLOCK_TRANSFER_RESPONSE,
                                  BitAnd(final[1], 127), b>> \o Zeros(5))} :
                       Delivered(r) /\ client' = Upd(r)

NextProgress ==
    \/ ClientBlockUploadInit
    \/ ClientBlockUploadStart
    \/ ProgressPartialAck
    \/ ProgressFullAck
    \/ ClientBlockUploadEnd

\* the start, and the full ack, can be taken: the guards of the two actions,
\* each of which changes the client's record when it is taken
StartDue == client.kind = "blockupload" /\ client.phase = "start"

FullAckDue ==
    /\ client.kind = "blockupload"
    /\ client.phase = "ack"
    /\ Len(client.resp) <= Len(client.payload)

\* weak fairness of the start and of the full ack: an action that can be taken
\* from some point on is taken again and again.  WF_vars(A) is
\* []<>~(ENABLED <<A>>_vars) \/ []<><<A>>_vars, written here with the action's
\* guard in the place of ENABLED <<A>>_vars.
FairStart == []<>~StartDue \/ []<><<ClientBlockUploadStart>>_vars

FairFullAck == []<>~FullAckDue \/ []<><<ProgressFullAck>>_vars

SpecProgress ==
    /\ InitClient
    /\ [][NextProgress]_vars
    /\ FairStart
    /\ FairFullAck

\* the block upload of round n has been accepted and is to be started
ProgressAccepted(n) ==
    /\ client.kind = "blockupload"
    /\ client.round = n
    /\ client.phase = "start"
    /\ Len(client.payload) >= 1

\* the end frame of round n has come, block mode is left, and the windows
\* received hold the payload's bytes once each and in order
ProgressEnded(n) ==
    /\ client.kind = "blockupload"
    /\ client.round = n
    /\ client.phase \in {"end", "done"}
    /\ ~block_mode
    /\ Len(Flat(client.resp)) = Ceil7(Len(client.payload))
    /\ BlockUploadReceived = client.payload

\* C27: after an accepted block-upload initiate for a payload of 1 byte or more,
\* a client that sends start and then acknowledges every window in full, with
\* any block size in each ack, eventually receives the end frame, the server
\* having left block mode and sent every payload byte once and in order; a
\* partial ack before the full ack of a window does not prevent this.
C27_BlockUploadProgress ==
    \A n \in 1..MaxRounds : ProgressAccepted(n) ~> ProgressEnded(n)

\* fifteen bytes have come in two windows, of one segment and of two, each
\* acknowledged in part before it was acknowledged in full, and the end frame
\* has followed
C27_Witness ==
    /\ ProgressEnded(1)
    /\ Len(client.payload) = 15
    /\ Len(client.resp) = 2
    /\ Len(client.resp[1]) = 1
    /\ client.pos = 2

\* requested block sizes at and around the limits of the clamp
RequestedBlockSizes == {0, 1, 2, 127, 128, 255}

\* block-upload initiates for an entry that is served and one that is missing,
\* and block-upload acks of nothing and of everything sent, each carrying a
\* requested block size
SizedInitFrames ==
    {<<REQUEST_BLOCK_UPLOAD + INITIATE_BLOCK_TRANSFER>> \o Target(i) \o <<b, 0, 0, 0>> :
        i \in {RW_INDEX, MISSING_INDEX}, b \in RequestedBlockSizes}

SizedAckFrames ==
    {<<REQUEST_BLOCK_UPLOAD + BLOCK_TRANSFER_RESPONSE, a, b>> \o Zeros(5) :
        a \in {0, block_sequence}, b \in RequestedBlockSizes}

\* the segments the data still to be sent makes
SegmentsLeft == IF block_data = NoneBuf THEN 0 ELSE Ceil7(Len(block_data[1]))

\* C28: the block size is within 1..127 in every reachable state; a block-upload
\* initiate or ack carrying the requested size b leaves it at min(max(b, 1), 127),
\* a block-download initiate leaves it at 127, and the window an ack is answered
\* with holds at most the clamped size the ack carried.
C28_BlockSizeClamped ==
    /\ block_size \in 1..127
    /\ \A f \in SizedInitFrames :
           \A r \in {After(f)} : r.block_size = Min(Max(f[5], 1), 127)
    /\ \A f \in SizedAckFrames :
           \A r \in {After(f)} :
               /\ r.block_size = Min(Max(f[3], 1), 127)
               /\ SendsWindow(f) =>
                      /\ IsWindow(r)
                      /\ Len(r.sent) = Min(Min(Max(f[3], 1), 127), SegmentsLeft)
    /\ \A f \in BlockDownloadInitFrames :
           \A r \in {After(f)} : r.block_size = 127

\* two segments are still to be sent; an ack asking for size 0 is answered with
\* one of them and an ack asking for size 255 with both
C28_Witness ==
    /\ block_mode
    /\ opened = "BlockUpload"
    /\ SegmentsLeft = 2
    /\ \E f \in SizedAckFrames :
           f[3] = 0 /\ SendsWindow(f) /\ Len(After(f).sent) = 1 /\ After(f).block_size = 1
    /\ \E f \in SizedAckFrames :
           f[3] = 255 /\ SendsWindow(f) /\ Len(After(f).sent) = 2 /\ After(f).block_size = 127

\* reason codes handed to abort: the default and codes the handlers pass
ReasonCodes ==
    {ABORT_GENERAL_ERROR, ABORT_INVALID_COMMAND_SPECIFIER, ABORT_TOGGLE_NOT_ALTERNATED,
     ABORT_NOT_IN_OD, ABORT_CRC_ERROR}

\* r is the state after abort(code): one abort frame for the current target with
\* that code has been sent, nothing has been raised, and the fields of the
\* transfer are as they were
Aborted(r, code) ==
    /\ r.exc.kind = "none"
    /\ r.sent = <<AbortFrame(index, subindex, code)>>
    /\ r.index = index /\ r.subindex = subindex
    /\ r.buffer = buffer /\ r.block_data = block_data
    /\ r.toggle = toggle
    /\ r.block_mode = block_mode
    /\ r.block_sequence = block_sequence
    /\ r.block_sent_segments = block_sent_segments

\* C29: abort, given a reason code (GENERAL_ERROR when none is given), emits
\* exactly one abort frame carrying the current target index and subindex and
\* that code, and leaves the target, the buffers, the toggle, the block mode
\* flag, the sequence counter and the segments kept for retransmission unchanged.
C29_AbortOperation ==
    \A code \in ReasonCodes :
        \A r \in {abort(Self, code)} : Aborted(r, code)

====
